---- MODULE Spec2Model ----
(***************************************************************************)
(* Model of the ZecKit command line:                                       *)
(*   cli/src/commands/up.rs   execute (`zeckit up`) and its helpers        *)
(*   cli/src/commands/test.rs execute (`zeckit test`): smoke and golden    *)
(*   cli/src/docker/health.rs HealthChecker (bounded retry loops, probes)  *)
(*   cli/src/docker/compose.rs DockerCompose (container commands)          *)
(* Time is counted in whole seconds, as Instant::elapsed().as_secs() does. *)
(***************************************************************************)
EXTENDS Integers, Sequences, FiniteSets, TLC

VARIABLES
    pc,            \* position of execute(): the gate or step about to run
    backend,       \* argument `backend` of up::execute; `backend_uri` of a test.rs function
    fresh,         \* argument `fresh` of execute
    ret,           \* what execute returned: "none" while running, "Ok", an error kind, "panic"
    stage,         \* the stage of the sequence that began last
    status,        \* "running", "ok" (gate satisfied), "warn" (non-fatal failure), "fatal"
    elapsed,       \* seconds since `start` of the gate loop in execute
    inner,         \* seconds since `start` of wait_for_wallet_ready / wait_for_mined_blocks
    attempt,       \* loop index i of the running HealthChecker::wait_for_* call
    lastProbe,     \* [poll, outcome] of the probe issued by the last step
    lastSleep,     \* seconds slept by the last step after its probe
    cmds,          \* container commands issued so far, in order
    warnings,      \* warnings printed so far
    tAddress,      \* transparent address found by get_wallet_transparent_address
    uaAddress,     \* unified address returned by generate_ua_fixtures
    configWrites,  \* number of fs::write calls on zebra.toml
    fixtureWrites, \* number of fs::write calls on fixtures/unified-addresses.json
    height,        \* the height of the getblockcount response that ended the mining wait
    reported,      \* print_connection_info has run
    timedOut,      \* the stage whose bounded wait ran out of time, "" when none did
    failures,      \* the helper calls of the non-fatal stages that returned Err
    running,       \* names of the running containers, as `docker ps` lists them
    golden,        \* argument `golden` of test::execute
    passed,        \* counter `passed` of test::execute
    failed,        \* counter `failed` of test::execute
    results,       \* what each check or stage run so far returned, in order
    balance,       \* (transparent, orchard) returned by wait_for_wallet_balance
    lastOut,       \* stdout of the last transaction command sent to the wallet console
    config,        \* text of docker/configs/zebra.toml
    configBefore,  \* text of zebra.toml when update_zebra_miner_address was last called
    answer         \* what the peer answered to the request of a probe called on its own

\* the state of a `zeckit test` run and of the files and containers around it
testVars == <<running, golden, passed, failed, results, balance, lastOut, config,
             configBefore, answer>>

vars == <<pc, backend, fresh, ret, stage, status, elapsed, inner, attempt,
          lastProbe, lastSleep, cmds, warnings, tAddress, uaAddress,
          configWrites, fixtureWrites, height, reported, timedOut, failures, testVars>>

----------------------------------------------------------------------------
(* Program constants *)

MAX_WAIT_SECONDS == 60000
WALLET_TIMEOUT_SECONDS == 6000
ZebraGateSeconds == 120
BackendGateSeconds == 180
FaucetGateSeconds == 60
GateRetrySleep == 1
MaxRetries == 60
BackendMaxRetries == 90
RetryDelay == 2
ProbeTimeout == 5
PollSleep == 2
MinBlocks == 101
CoinbaseWait == 120
RestartSleep == 15
UaPreviewLen == 20
MinTAddrLen == 30

(* Bounds of the model *)

\* the longest a `docker exec` of the wallet console is taken to run, in seconds
MaxExecSeconds == 3
\* filler characters of the longest address of the modelled console outputs
PadLen == 33
\* seconds at the start and before the limit of an elapsed-time loop in which every
\* pass is a step of its own; the passes in between are taken in one step
Window == 20

\* lines of a zebra.toml the config patch is applied to
MaxConfigLines == 2

\* calls of update_zebra_miner_address on one file
MaxCalls == 2

----------------------------------------------------------------------------
(* Text: a string is a sequence of one-character strings *)

Q == "\""

Rep(c, n) == [k \in 1..n |-> c]

\* str.starts_with(pat)
StartsWith(s, p) == Len(s) >= Len(p) /\ SubSeq(s, 1, Len(p)) = p

\* str.find(pat): index (from 1) of the first match, 0 for None
Find(s, p) ==
    LET hits == {k \in 1..(Len(s) - Len(p) + 1) : SubSeq(s, k, k + Len(p) - 1) = p}
    IN IF hits = {} THEN 0 ELSE CHOOSE k \in hits : \A j \in hits : k <= j

\* str.contains(pat)
Contains(s, p) == Find(s, p) # 0

\* addr_part.find(|c| c == '"' || c == '\n' || c == ' ').unwrap_or(addr_part.len()),
\* as the length of the prefix before the first terminator
TokenEnd(s) ==
    LET hits == {k \in 1..Len(s) : s[k] \in {Q, "\n", " "}}
    IN IF hits = {} THEN Len(s) ELSE (CHOOSE k \in hits : \A j \in hits : k <= j) - 1

\* a line's text from the first match of `prefix` up to the next quote, newline or space
TokenAt(line, prefix) ==
    LET addrPart == SubSeq(line, Find(line, prefix), Len(line))
    IN SubSeq(addrPart, 1, TokenEnd(addrPart))

----------------------------------------------------------------------------
(* What the outside world can answer *)

\* Answers of an HTTP request sent with .timeout(5 s): the connect is refused at
\* once, the request runs into the per-call timeout (before or after the TCP
\* connect), the peer answers something that is not HTTP, or an HTTP response.
\* `result` is the JSON body's "result" (-1: absent or no unsigned integer, -2: the
\* body is no JSON); `health` is the JSON body's "status".
HttpAnswer(k, code, res, h, d) ==
    [kind |-> k, status |-> code, result |-> res, health |-> h, dur |-> d]

TransportFailures ==
    { HttpAnswer("connect_error", 0, -2, "none", 0),
      HttpAnswer("connect_timeout", 0, -2, "none", ProbeTimeout),
      HttpAnswer("reply_timeout", 0, -2, "none", ProbeTimeout),
      HttpAnswer("not_http", 0, -2, "none", 0) }

RpcAnswers ==
    TransportFailures \cup
    { HttpAnswer("http", st, r, "none", 0) : st \in {200, 500}, r \in {-2, -1, 0, 42, 100, 101, 250} }

FaucetAnswers ==
    TransportFailures \cup
    { HttpAnswer("http", st, -1, h, 0) : st \in {200, 503}, h \in {"notjson", "absent", "healthy", "unhealthy"} }

BackendAnswers ==
    TransportFailures \cup { HttpAnswer("http", st, -2, "notjson", 0) : st \in {200, 404} }

\* StatusCode::is_success
IsSuccess(code) == code >= 200 /\ code < 300

\* send().await succeeded: an HTTP response arrived
Sent(r) == r.kind = "http"

----------------------------------------------------------------------------
(* HealthChecker: the single-shot probes *)

check_zebra(r) ==
    IF ~Sent(r) THEN "Err"
    ELSE IF IsSuccess(r.status) THEN "Ok" ELSE "Err"

check_faucet(r) ==
    IF ~Sent(r) THEN "Err"
    ELSE IF ~IsSuccess(r.status) THEN "Err"
    ELSE IF r.health = "notjson" THEN "Err"
    ELSE IF r.health = "unhealthy" THEN "Err"
    ELSE "Ok"

check_backend(b, r) ==
    IF b \notin {"lwd", "zaino"} THEN "Err"
    ELSE IF Sent(r) THEN "Ok"
    ELSE IF r.kind \in {"connect_error", "connect_timeout", "reply_timeout"} THEN "Err"
    ELSE "Ok"

\* get_block_count: Err(_) or Ok(height)
get_block_count(r) ==
    IF ~Sent(r) THEN [ok |-> FALSE, height |-> 0]
    ELSE IF r.result = -2 THEN [ok |-> FALSE, height |-> 0]
    ELSE IF r.result = -1 THEN [ok |-> FALSE, height |-> 0]
    ELSE [ok |-> TRUE, height |-> r.result]

----------------------------------------------------------------------------
(* HealthChecker: one pass of the `for i in 0..max` loop of wait_for_*.       *)
(* `returned` is "none" when the loop goes on, else what the call returned.   *)

\* HealthAttempt sleeping before it looks at the probe's result
HealthAttempt_SleepFirst(res, i, max) ==
    IF res = "Ok" THEN [returned |-> "Ok", sleep |-> RetryDelay]
    ELSE IF i < max - 1 THEN [returned |-> "none", sleep |-> RetryDelay]
    ELSE [returned |-> "Err", sleep |-> 0]

HealthAttempt(res, i, max) ==
    IF res = "Ok" THEN [returned |-> "Ok", sleep |-> 0]
    ELSE IF i < max - 1 THEN [returned |-> "none", sleep |-> RetryDelay]
    ELSE [returned |-> "Err", sleep |-> 0]

----------------------------------------------------------------------------
(* The wallet console: what `docker exec zeckit-zingo-wallet ... zingo-cli`   *)
(* can print. An output is the sequence of its lines.                        *)

S_tm == <<"t", "m">>
S_uregtest == <<"u", "r", "e", "g", "t", "e", "s", "t">>
S_encoded_address ==
    <<"e", "n", "c", "o", "d", "e", "d", "_", "a", "d", "d", "r", "e", "s", "s">>
S_quoted_encoded_address == <<Q>> \o S_encoded_address \o <<Q>>
S_sync_error == <<"S", "y", "n", "c", " ", "e", "r", "r", "o", "r">>
S_field == S_quoted_encoded_address \o <<":", " ", Q>>

\* `"encoded_address": "<addr>",`
AddressLine(addr) == <<" ", " ">> \o S_field \o addr \o <<Q, ",">>

TAddrLong == S_tm \o Rep("A", PadLen)
TAddrShort == S_tm \o Rep("A", 3)
UAddrLong == S_uregtest \o <<"1">> \o Rep("q", PadLen)
UAddrShort == S_uregtest \o <<"1">> \o Rep("q", 3)
UAddr20 == S_uregtest \o Rep("q", UaPreviewLen - Len(S_uregtest))

EmptyOutput == << >>
ErrorOutput == << <<"E", "r", "r", "o", "r", ":", " ", "n", "o", " ", "s", "e", "r", "v", "e", "r">> >>

\* outputs of the script `t_addresses; quit`
TAddressOutputs ==
    { EmptyOutput,
      ErrorOutput,
      << <<"[">>, AddressLine(TAddrLong), <<"]">> >>,
      << AddressLine(TAddrShort) >>,
      << AddressLine(TAddrShort), AddressLine(TAddrLong) >>,
      << S_quoted_encoded_address \o <<":">>, <<" ">> \o TAddrLong >>,
      << <<"a", "d", "d", "r", " ">> \o TAddrLong >> }

\* outputs of the script `addresses; quit`
AddressesOutputs ==
    { EmptyOutput,
      ErrorOutput,
      << <<"[">>, AddressLine(UAddrLong), <<"]">> >>,
      << AddressLine(UAddr20) >>,
      << AddressLine(UAddrShort) >>,
      << AddressLine(UAddrShort), AddressLine(UAddrLong) >>,
      << <<"u", "a", " ">> \o UAddrLong >> }

\* outputs of the script `sync run; quit`
SyncOutputs ==
    { EmptyOutput,
      << <<"s", "y", "n", "c", "e", "d">> >>,
      << <<"[">>, S_sync_error \o <<":", " ", "x">> >> }

\* Command::output(): Err(_) when the process could not be run, else its stdout
ExecFailed == [ok |-> FALSE, out |-> EmptyOutput]
ExecResults(outputs) == {ExecFailed} \cup { [ok |-> TRUE, out |-> o] : o \in outputs }

\* output_str.contains(pat), for a pattern without a newline
OutContains(out, pat) == \E k \in 1..Len(out) : Contains(out[k], pat)

\* the least member of a set of line numbers, 0 when it is empty: the line a
\* `for line in output_str.lines()` scan stops at
FirstOf(hits) == IF hits = {} THEN 0 ELSE CHOOSE k \in hits : \A j \in hits : k <= j

----------------------------------------------------------------------------
(* up.rs: the helpers of execute *)

\* the test of wait_for_wallet_ready on one exec result
wallet_ready_probe(x) ==
    IF x.ok /\ OutContains(x.out, S_tm) /\ OutContains(x.out, S_encoded_address)
    THEN "Ok" ELSE "Err"

TAddressAccepted(line) ==
    /\ Contains(line, S_quoted_encoded_address)
    /\ Contains(line, S_tm)
    /\ LET address == TokenAt(line, S_tm)
       IN StartsWith(address, S_tm) /\ Len(address) > MinTAddrLen

get_wallet_transparent_address(x) ==
    IF ~x.ok THEN [ok |-> FALSE, addr |-> << >>]
    ELSE LET k == FirstOf({n \in 1..Len(x.out) : TAddressAccepted(x.out[n])})
         IN IF k = 0 THEN [ok |-> FALSE, addr |-> << >>]
            ELSE [ok |-> TRUE, addr |-> TokenAt(x.out[k], S_tm)]

UaLine(line) == Contains(line, S_uregtest)

\* generate_ua_fixtures going on after the first address line: one fs::write for
\* every line with an address
generate_ua_fixtures_EveryLine(x, dirOk, writeOk) ==
    IF ~x.ok THEN [ok |-> FALSE, addr |-> << >>, writes |-> 0]
    ELSE LET found == {n \in 1..Len(x.out) : UaLine(x.out[n])}
         IN IF found = {} \/ ~dirOk THEN [ok |-> FALSE, addr |-> << >>, writes |-> 0]
            ELSE [ok |-> writeOk, addr |-> IF writeOk THEN TokenAt(x.out[FirstOf(found)], S_uregtest) ELSE << >>,
                  writes |-> Cardinality(found)]

\* dirOk, writeOk: fs::create_dir_all and fs::write succeed.
\* writes: the number of fs::write calls made on the fixture file.
generate_ua_fixtures(x, dirOk, writeOk) ==
    IF ~x.ok THEN [ok |-> FALSE, addr |-> << >>, writes |-> 0]
    ELSE LET k == FirstOf({n \in 1..Len(x.out) : UaLine(x.out[n])})
         IN IF k = 0 THEN [ok |-> FALSE, addr |-> << >>, writes |-> 0]
            ELSE IF ~dirOk THEN [ok |-> FALSE, addr |-> << >>, writes |-> 0]
            ELSE IF ~writeOk THEN [ok |-> FALSE, addr |-> << >>, writes |-> 1]
            ELSE [ok |-> TRUE, addr |-> TokenAt(x.out[k], S_uregtest), writes |-> 1]

sync_wallet(x) ==
    IF ~x.ok THEN "Err"
    ELSE IF OutContains(x.out, S_sync_error) THEN "Err"
    ELSE "Ok"

\* update_zebra_miner_address seen from execute: readOk, writeOk say whether
\* fs::read_to_string and fs::write succeed
update_zebra_miner_address(readOk, writeOk) ==
    IF ~readOk THEN [ok |-> FALSE, writes |-> 0]
    ELSE IF ~writeOk THEN [ok |-> FALSE, writes |-> 1]
    ELSE [ok |-> TRUE, writes |-> 1]

\* restart_zebra: ran says whether `docker restart zeckit-zebra` exited with success
restart_zebra(ran) ==
    IF ran THEN [ok |-> TRUE, sleep |-> RestartSleep] ELSE [ok |-> FALSE, sleep |-> 0]

StatsAnswers ==
    TransportFailures \cup
    { HttpAnswer("http", st, b, "none", 0) : st \in {200, 500}, b \in {-2, -1, 0, 5} }

\* check_wallet_balance: Err(_) or Ok(balance); an absent current_balance is 0.0
check_wallet_balance(r) ==
    IF ~Sent(r) THEN [ok |-> FALSE, balance |-> 0]
    ELSE IF r.result = -2 THEN [ok |-> FALSE, balance |-> 0]
    ELSE IF r.result = -1 THEN [ok |-> TRUE, balance |-> 0]
    ELSE [ok |-> TRUE, balance |-> r.result]

\* &address[..20] panics when the string is shorter than 20 bytes
PreviewPanics(address) == Len(address) < UaPreviewLen

----------------------------------------------------------------------------
(* The state machine of execute *)

Backends == {"lwd", "zaino", "none", "bogus"}

NoProbe == [poll |-> "none", outcome |-> "none"]

\* no request was sent
NoAnswer == HttpAnswer("none", 0, -2, "none", 0)

\* no `zeckit test` has run; the config file is not looked at
NoTestRun ==
    /\ running = {}
    /\ golden = FALSE
    /\ passed = 0
    /\ failed = 0
    /\ results = << >>
    /\ balance = <<0, 0>>
    /\ lastOut = << >>
    /\ config = << >>
    /\ configBefore = << >>
    /\ answer = NoAnswer

Init ==
    /\ pc = "Entry"
    /\ backend \in Backends
    /\ fresh \in BOOLEAN
    /\ ret = "none"
    /\ stage = "NotStarted"
    /\ status = "ok"
    /\ elapsed = 0
    /\ inner = 0
    /\ attempt = 0
    /\ lastProbe = NoProbe
    /\ lastSleep = 0
    /\ cmds = << >>
    /\ warnings = {}
    /\ tAddress = << >>
    /\ uaAddress = << >>
    /\ configWrites = 0
    /\ fixtureWrites = 0
    /\ height = 0
    /\ reported = FALSE
    /\ timedOut = ""
    /\ failures = {}
    /\ NoTestRun

\* execute returns Err(kind)
Fail(kind) ==
    /\ pc' = "Failed"
    /\ ret' = kind
    /\ status' = "fatal"
    /\ UNCHANGED warnings

\* the stage is done, execute goes on at `next`
Proceed(next) ==
    /\ pc' = next
    /\ ret' = ret
    /\ status' = "ok"
    /\ UNCHANGED warnings

\* the stage failed, execute prints a warning and goes on at `next`
Warn(w, next) ==
    /\ pc' = next
    /\ ret' = ret
    /\ status' = "warn"
    /\ warnings' = warnings \cup {w}

\* the running wait goes into another pass
Again ==
    /\ status' = "running"
    /\ UNCHANGED <<pc, ret, warnings>>

\* the container commands of up.rs 24-69, in order, up to the first that fails
LaunchCommands(b, f, downOk, buildOk) ==
    (IF f THEN <<"down -v">> ELSE << >>) \o
    (IF f /\ ~downOk THEN << >>
     ELSE IF b \in {"lwd", "zaino"} THEN
        (IF buildOk THEN <<"build", "up">> ELSE <<"build">>)
     ELSE IF b = "none" THEN <<"up">>
     ELSE << >>)

\* up.rs 22-79: DockerCompose::new, --fresh cleanup, backend validation, compose up
Launch ==
    /\ pc = "Entry"
    /\ stage' = "ContainersStarting"
    /\ \E newOk, downOk, buildOk, upOk \in BOOLEAN :
        /\ cmds' = IF newOk THEN LaunchCommands(backend, fresh, downOk, buildOk) ELSE << >>
        /\ IF ~newOk THEN Fail("Io")
           ELSE IF fresh /\ ~downOk THEN Fail("Docker")
           ELSE IF backend \notin {"lwd", "zaino", "none"} THEN Fail("Config")
           ELSE IF backend \in {"lwd", "zaino"} /\ ~buildOk THEN Fail("Docker")
           ELSE IF ~upOk THEN Fail("Docker")
           ELSE Proceed("Zebra")
    /\ lastProbe' = NoProbe
    /\ UNCHANGED <<testVars, backend, fresh, elapsed, inner, attempt, lastSleep, tAddress, uaAddress,
                   configWrites, fixtureWrites, height, reported, timedOut, failures>>

\* seconds on the clock of the gate loop when the step starts: `start` is taken
\* when the gate begins
GateClock(stageName) == IF stage = stageName THEN elapsed ELSE 0

\* GateTimeout downgraded to a warning
GateTimeout_Warn(next) == Warn("gate", next)

\* the `else` of a gate loop of execute: the gate is out of time
GateTimeout(next) == Fail("ServiceNotReady")

\* One pass of the retry loop of a HealthChecker::wait_for_* call made by a gate
\* loop of execute and, when the call returns, the rest of the gate loop's body:
\* break on Ok; on Err sleep 1 s and call again while elapsed < limit, else
\* return ServiceNotReady.
GateStep(here, stageName, poll, res, dur, max, limit, next) ==
    LET a == HealthAttempt(res, attempt, max)
        now == GateClock(stageName) + dur + a.sleep
    IN /\ pc = here
       /\ stage' = stageName
       /\ lastProbe' = [poll |-> poll, outcome |-> res]
       /\ IF a.returned = "none"
          THEN /\ attempt' = attempt + 1
               /\ elapsed' = now
               /\ lastSleep' = a.sleep
               /\ Again
               /\ UNCHANGED timedOut
          ELSE IF a.returned = "Ok"
          THEN /\ attempt' = 0
               /\ elapsed' = now
               /\ lastSleep' = a.sleep
               /\ Proceed(next)
               /\ UNCHANGED timedOut
          ELSE IF now < limit
          THEN /\ attempt' = 0
               /\ elapsed' = now + GateRetrySleep
               /\ lastSleep' = a.sleep + GateRetrySleep
               /\ Again
               /\ UNCHANGED timedOut
          ELSE /\ attempt' = 0
               /\ elapsed' = now
               /\ lastSleep' = a.sleep
               /\ timedOut' = stageName
               /\ GateTimeout(next)
       /\ UNCHANGED <<testVars, backend, fresh, inner, cmds, tAddress, uaAddress,
                      configWrites, fixtureWrites, height, reported, failures>>

\* AfterZebra with the backend gate left out
AfterZebra_SkipBackend(b) == "Wallet"

\* up.rs 105-106: the backend gate runs for lwd and zaino only
AfterZebra(b) == IF b = "lwd" \/ b = "zaino" THEN "Backend" ELSE "Wallet"

\* up.rs 81-102 with health.rs 24-38
ZebraGate ==
    \E r \in RpcAnswers :
        GateStep("Zebra", "NodeReady", "wait_for_zebra", check_zebra(r), r.dur,
                 MaxRetries, ZebraGateSeconds, AfterZebra(backend))

\* up.rs 105-129 with health.rs 56-71
BackendGate ==
    \E r \in BackendAnswers :
        GateStep("Backend", "BackendReady", "wait_for_backend", check_backend(backend, r),
                 r.dur, BackendMaxRetries, BackendGateSeconds, "Wallet")

\* FaucetGate as a single call whose result is only logged
FaucetGate_Logged ==
    \E r \in FaucetAnswers :
        /\ pc = "Faucet"
        /\ stage' = "FaucetReady"
        /\ lastProbe' = [poll |-> "wait_for_faucet", outcome |-> check_faucet(r)]
        /\ elapsed' = r.dur
        /\ lastSleep' = 0
        /\ attempt' = 0
        /\ IF check_faucet(r) = "Ok" THEN Proceed("Address") ELSE Warn("gate", "Address")
        /\ UNCHANGED <<testVars, backend, fresh, inner, cmds, tAddress, uaAddress, configWrites,
                       fixtureWrites, height, reported, failures, timedOut>>

\* up.rs 161-181 with health.rs 40-54
FaucetGate ==
    \E r \in FaucetAnswers :
        GateStep("Faucet", "FaucetReady", "wait_for_faucet", check_faucet(r), r.dur,
                 MaxRetries, FaucetGateSeconds, "Address")

\* ElapsedAttempt leaving the loop on a failed probe, as with `?`
ElapsedAttempt_Propagate(res, clock, limit) ==
    IF res = "Ok" THEN [returned |-> "Ok", sleep |-> 0]
    ELSE IF res = "Err" \/ clock > limit THEN [returned |-> "Err", sleep |-> 0]
    ELSE [returned |-> "none", sleep |-> PollSleep]

\* One pass of the `loop` of wait_for_wallet_ready / wait_for_mined_blocks:
\* return Ok when the probe is satisfied, else Err once the clock is past the
\* limit, else sleep 2 s and go on.
ElapsedAttempt(res, clock, limit) ==
    IF res = "Ok" THEN [returned |-> "Ok", sleep |-> 0]
    ELSE IF clock > limit THEN [returned |-> "Err", sleep |-> 0]
    ELSE [returned |-> "none", sleep |-> PollSleep]

\* The passes of an elapsed-time loop between `Window` seconds after its start and
\* `Window` seconds before its limit, taken together: the probe fails at once in
\* each of them, so each adds its sleep to the clock and changes nothing else.
\* The seconds these passes take from clock c on.
FastForward(c, limit) ==
    IF c > Window /\ c < limit - Window
    THEN PollSleep * ((limit - Window - c + PollSleep - 1) \div PollSleep)
    ELSE 0

\* InnerClock with `start` taken inside the loop, on every pass
InnerClock_Restarted(stageName) == 0

\* seconds on the clock of the running wait_for_wallet_ready / wait_for_mined_blocks
InnerClock(stageName) == IF stage = stageName THEN inner ELSE 0

\* up.rs 140-158 with wait_for_wallet_ready (263-291)
WalletGate ==
    \E x \in ExecResults(TAddressOutputs), dur \in {0, MaxExecSeconds} :
        LET res == wallet_ready_probe(x)
            clock == InnerClock("WalletReady") + dur
            a == ElapsedAttempt(res, clock, WALLET_TIMEOUT_SECONDS)
            now == GateClock("WalletReady") + dur + a.sleep
            skip == FastForward(clock + a.sleep, WALLET_TIMEOUT_SECONDS)
        IN /\ pc = "Wallet"
           /\ stage' = "WalletReady"
           /\ lastProbe' = [poll |-> "wait_for_wallet_ready", outcome |-> res]
           /\ IF a.returned = "none"
              THEN /\ inner' = clock + a.sleep + skip
                   /\ elapsed' = now + skip
                   /\ lastSleep' = a.sleep
                   /\ Again
                   /\ UNCHANGED timedOut
              ELSE IF a.returned = "Ok"
              THEN /\ inner' = 0
                   /\ elapsed' = now
                   /\ lastSleep' = a.sleep
                   /\ Proceed("Faucet")
                   /\ UNCHANGED timedOut
              ELSE IF now < WALLET_TIMEOUT_SECONDS
              THEN /\ inner' = 0
                   /\ elapsed' = now + GateRetrySleep
                   /\ lastSleep' = a.sleep + GateRetrySleep
                   /\ Again
                   /\ UNCHANGED timedOut
              ELSE /\ inner' = 0
                   /\ elapsed' = now
                   /\ lastSleep' = a.sleep
                   /\ timedOut' = "WalletReady"
                   /\ GateTimeout("Faucet")
           /\ UNCHANGED <<testVars, backend, fresh, attempt, cmds, tAddress, uaAddress,
                          configWrites, fixtureWrites, height, reported, failures>>

\* AddressError propagated with `?`
AddressError_Fatal == Fail("HealthCheck")

\* up.rs 204-207: address discovery failed
AddressError == Warn("address", "Mining")

\* up.rs 183-208: address discovery
GetAddress ==
    /\ pc = "Address"
    /\ stage' = "AddressDiscovered"
    /\ \E x \in ExecResults(TAddressOutputs) :
        LET r == get_wallet_transparent_address(x)
        IN IF r.ok
           THEN /\ tAddress' = r.addr
                /\ Proceed("Config")
                /\ UNCHANGED failures
           ELSE /\ failures' = failures \cup {"address"}
                /\ AddressError
                /\ UNCHANGED tAddress
    /\ elapsed' = 0
    /\ lastProbe' = NoProbe
    /\ lastSleep' = 0
    /\ UNCHANGED <<testVars, backend, fresh, inner, attempt, cmds, uaAddress,
                   configWrites, fixtureWrites, height, reported, timedOut>>

\* ConfigError with the restart outside the `else` of the patch
ConfigError_Restart == Warn("config", "Restart")

\* up.rs 193-194: the config patch failed
ConfigError == Warn("config", "Mining")

\* up.rs 193-196: config patch
UpdateConfig ==
    /\ pc = "Config"
    /\ stage' = "ConfigPatched"
    /\ \E readOk, writeOk \in BOOLEAN :
        LET r == update_zebra_miner_address(readOk, writeOk)
        IN /\ configWrites' = configWrites + r.writes
           /\ IF r.ok
              THEN Proceed("Restart") /\ UNCHANGED failures
              ELSE ConfigError /\ failures' = failures \cup {"config"}
    /\ UNCHANGED <<testVars, backend, fresh, elapsed, inner, attempt, lastProbe, lastSleep,
                   cmds, tAddress, uaAddress, fixtureWrites, height, reported, timedOut>>

\* RestartError propagated with `?`
RestartError_Fatal == Fail("Docker")

\* up.rs 199-201: the restart failed
RestartError == Warn("restart", "Mining")

\* up.rs 198-201: node restart
RestartZebra ==
    /\ pc = "Restart"
    /\ stage' = "NodeRestarted"
    /\ cmds' = Append(cmds, "restart")
    /\ \E ran \in BOOLEAN :
        LET r == restart_zebra(ran)
        IN /\ lastSleep' = r.sleep
           /\ IF r.ok
              THEN Proceed("Mining") /\ UNCHANGED failures
              ELSE RestartError /\ failures' = failures \cup {"restart"}
    /\ UNCHANGED <<testVars, backend, fresh, elapsed, inner, attempt, lastProbe,
                   tAddress, uaAddress, configWrites, fixtureWrites, height, reported,
                   timedOut>>

\* MinedEnough with the comparison off by one
MinedEnough_OffByOne(g) == g.ok /\ g.height + 1 >= MinBlocks

\* up.rs 301: Ok(height) if height >= min_blocks
MinedEnough(g) == g.ok /\ g.height >= MinBlocks

\* MiningTimeout with the error of wait_for_mined_blocks dropped instead of `?`
MiningTimeout_Ignored == Warn("mining", "Coinbase")

\* up.rs 211: wait_for_mined_blocks(..).await? on Err
MiningTimeout == Fail("ServiceNotReady")

\* up.rs 210-211 with wait_for_mined_blocks (293-322); the probe's outcome is the
\* arm of the match taken: "Ok" (height >= min_blocks), "Short" (Ok(height)), "Err"
MiningWait ==
    \E r \in RpcAnswers :
        LET g == get_block_count(r)
            res == IF MinedEnough(g) THEN "Ok" ELSE IF g.ok THEN "Short" ELSE "Err"
            clock == InnerClock("MiningMaturity") + r.dur
            a == ElapsedAttempt(res, clock, MAX_WAIT_SECONDS)
        IN /\ pc = "Mining"
           /\ stage' = "MiningMaturity"
           /\ lastProbe' = [poll |-> "wait_for_mined_blocks", outcome |-> res]
           /\ lastSleep' = a.sleep
           /\ IF a.returned = "none"
              THEN /\ inner' = clock + a.sleep + FastForward(clock + a.sleep, MAX_WAIT_SECONDS)
                   /\ Again
                   /\ UNCHANGED <<height, timedOut>>
              ELSE IF a.returned = "Ok"
              THEN /\ inner' = 0
                   /\ height' = g.height
                   /\ Proceed("Coinbase")
                   /\ UNCHANGED timedOut
              ELSE /\ inner' = clock
                   /\ timedOut' = "MiningMaturity"
                   /\ MiningTimeout
                   /\ UNCHANGED height
           /\ UNCHANGED <<testVars, backend, fresh, elapsed, attempt, cmds, tAddress,
                          uaAddress, configWrites, fixtureWrites, reported, failures>>

\* up.rs 213-216: the fixed coinbase-maturity sleep
CoinbaseSleep ==
    /\ pc = "Coinbase"
    /\ stage' = "CoinbaseMaturityWindow"
    /\ Proceed("Fixtures")
    /\ lastSleep' = CoinbaseWait
    /\ lastProbe' = NoProbe
    /\ UNCHANGED <<testVars, backend, fresh, elapsed, inner, attempt, cmds, tAddress,
                   uaAddress, configWrites, fixtureWrites, height, reported, timedOut,
                   failures>>

\* up.rs 226-229: fixture generation failed
FixtureError == Warn("fixture", "Sync")

\* up.rs 223-225: println!("Generated UA: {}...", &address[..20])
FixturePreview(address) ==
    IF PreviewPanics(address)
    THEN pc' = "Panicked" /\ ret' = "panic" /\ status' = "running" /\ UNCHANGED warnings
    ELSE Proceed("Sync")

\* up.rs 218-230: fixture generation and the preview of the address
GenerateFixtures ==
    /\ pc = "Fixtures"
    /\ stage' = "FixturesGenerated"
    /\ \E x \in ExecResults(AddressesOutputs), dirOk, writeOk \in BOOLEAN :
        LET g == generate_ua_fixtures(x, dirOk, writeOk)
        IN /\ fixtureWrites' = fixtureWrites + g.writes
           /\ IF g.ok
              THEN /\ uaAddress' = g.addr
                   /\ FixturePreview(g.addr)
                   /\ UNCHANGED failures
              ELSE /\ failures' = failures \cup {"fixture"}
                   /\ FixtureError
                   /\ UNCHANGED uaAddress
    /\ lastSleep' = 0
    /\ UNCHANGED <<testVars, backend, fresh, elapsed, inner, attempt, lastProbe, cmds, tAddress,
                   configWrites, height, reported, timedOut>>

\* up.rs 235-236: the sync failed
SyncError == Warn("sync", "Balance")

\* up.rs 232-239: wallet sync
SyncWallet ==
    /\ pc = "Sync"
    /\ stage' = "WalletSynced"
    /\ \E x \in ExecResults(SyncOutputs) :
        IF sync_wallet(x) = "Ok"
        THEN Proceed("Balance") /\ UNCHANGED failures
        ELSE SyncError /\ failures' = failures \cup {"sync"}
    /\ UNCHANGED <<testVars, backend, fresh, elapsed, inner, attempt, lastProbe, lastSleep, cmds,
                   tAddress, uaAddress, configWrites, fixtureWrites, height, reported,
                   timedOut>>

\* up.rs 252-254: the balance check failed
BalanceError == Warn("balance", "Report")

\* up.rs 241-255: balance check
CheckBalance ==
    /\ pc = "Balance"
    /\ stage' = "BalanceChecked"
    /\ \E r \in StatsAnswers :
        LET b == check_wallet_balance(r)
        IN IF b.ok
           THEN Proceed("Report") /\ UNCHANGED failures
           ELSE BalanceError /\ failures' = failures \cup {"balance"}
    /\ UNCHANGED <<testVars, backend, fresh, elapsed, inner, attempt, lastProbe, lastSleep, cmds,
                   tAddress, uaAddress, configWrites, fixtureWrites, height, reported,
                   timedOut>>

\* up.rs 257-260: print_connection_info, print_mining_info (which ignores a failed
\* height query), return Ok
Report ==
    /\ pc = "Report"
    /\ stage' = "Done"
    /\ status' = "ok"
    /\ reported' = TRUE
    /\ ret' = "Ok"
    /\ pc' = "Done"
    /\ UNCHANGED <<testVars, backend, fresh, elapsed, inner, attempt, lastProbe, lastSleep, cmds,
                   warnings, tAddress, uaAddress, configWrites, fixtureWrites, height,
                   timedOut, failures>>

Next ==
    \/ Launch
    \/ ZebraGate
    \/ BackendGate
    \/ WalletGate
    \/ FaucetGate
    \/ GetAddress
    \/ UpdateConfig
    \/ RestartZebra
    \/ MiningWait
    \/ CoinbaseSleep
    \/ GenerateFixtures
    \/ SyncWallet
    \/ CheckBalance
    \/ Report

Spec == Init /\ [][Next]_vars

\* execute runs on: the process takes its next step whenever it has one
FairSpec == Spec /\ WF_vars(Next)

----------------------------------------------------------------------------
(* HealthChecker::wait_for_backend called on its own: the method is public and *)
(* takes any backend name                                                     *)

\* the variables that only up::execute writes
upVars == <<fresh, stage, status, inner, warnings, uaAddress, configWrites,
            fixtureWrites, height, reported, timedOut, failures>>

\* up::execute has not run
NoBootstrap ==
    /\ fresh = FALSE
    /\ stage = "NotStarted"
    /\ status = "ok"
    /\ inner = 0
    /\ warnings = {}
    /\ uaAddress = << >>
    /\ configWrites = 0
    /\ fixtureWrites = 0
    /\ height = 0
    /\ reported = FALSE
    /\ timedOut = ""
    /\ failures = {}

PollInit ==
    /\ pc = "wait_for_backend"
    /\ backend \in Backends
    /\ ret = "none"
    /\ elapsed = 0
    /\ attempt = 0
    /\ lastProbe = NoProbe
    /\ lastSleep = 0
    /\ cmds = << >>
    /\ tAddress = << >>
    /\ NoBootstrap
    /\ NoTestRun

\* health.rs 56-71: one pass of `for i in 0..self.backend_max_retries`.
\* check_backend sends a request for lwd and zaino only; `elapsed` is the time
\* spent in the call, `attempt` the index i of the pass.
WaitForBackend ==
    /\ pc = "wait_for_backend"
    /\ \E r \in BackendAnswers :
        LET res == check_backend(backend, r)
            dur == IF backend \in {"lwd", "zaino"} THEN r.dur ELSE 0
            a == HealthAttempt(res, attempt, BackendMaxRetries)
        IN /\ lastProbe' = [poll |-> "wait_for_backend", outcome |-> res]
           /\ lastSleep' = a.sleep
           /\ elapsed' = elapsed + dur + a.sleep
           /\ IF a.returned = "none"
              THEN attempt' = attempt + 1 /\ UNCHANGED <<pc, ret>>
              ELSE /\ attempt' = attempt
                   /\ pc' = "Returned"
                   /\ ret' = IF a.returned = "Ok" THEN "Ok" ELSE "HealthCheck"
    /\ UNCHANGED <<backend, cmds, tAddress, upVars, testVars>>

PollNext == WaitForBackend

PollSpec == PollInit /\ [][PollNext]_vars

----------------------------------------------------------------------------
(* test.rs: backend detection *)

S_zeckit_zaino == <<"z", "e", "c", "k", "i", "t", "-", "z", "a", "i", "n", "o">>
S_zeckit_lightwalletd == <<"z", "e", "c", "k", "i", "t", "-", "l", "i", "g", "h", "t", "w", "a", "l", "l", "e", "t", "d">>
ZainoUri == <<"h", "t", "t", "p", ":", "/", "/", "z", "a", "i", "n", "o", ":", "9", "0", "6", "7">>
LwdUri == <<"h", "t", "t", "p", ":", "/", "/", "l", "i", "g", "h", "t", "w", "a", "l", "l", "e", "t", "d", ":", "9", "0", "6", "7">>

\* names a running container can have: the two backends' and one that matches
\* neither filter
ContainerNames == {S_zeckit_zaino, S_zeckit_lightwalletd, <<"d", "e", "v", "n", "e", "t", "-", "z", "a", "i", "n", "o">>}

\* Command::new("docker").args(["ps", "--filter", "name=<filter>", "--format",
\* "{{.Names}}"]).output(): Err(_) when docker could not be run, else the lines of
\* its stdout, the running containers' names that have `filter` as a part
docker_ps(names, filter, spawned) ==
    [ok |-> spawned,
     out |-> IF spawned THEN {n \in names : Contains(n, filter)} ELSE {}]

\* a Result: Err(kind), Ok(v)
Failure(kind) == [ok |-> FALSE, val |-> << >>, err |-> kind]
Success(v) == [ok |-> TRUE, val |-> v, err |-> "none"]

\* detect_backend asking for lightwalletd first
detect_backend_LwdFirst(ps1, ps2) ==
    IF ~ps2.ok THEN Failure("Docker")
    ELSE IF (\E n \in ps2.out : Contains(n, S_zeckit_lightwalletd)) THEN Success(LwdUri)
    ELSE IF ~ps1.ok THEN Failure("Docker")
    ELSE IF (\E n \in ps1.out : Contains(n, S_zeckit_zaino)) THEN Success(ZainoUri)
    ELSE Failure("HealthCheck")

\* ps1, ps2: the listings for name=zeckit-zaino and name=zeckit-lightwalletd; the
\* second is asked for only when the first names no zaino container
detect_backend(ps1, ps2) ==
    IF ~ps1.ok THEN Failure("Docker")
    ELSE IF (\E n \in ps1.out : Contains(n, S_zeckit_zaino)) THEN Success(ZainoUri)
    ELSE IF ~ps2.ok THEN Failure("Docker")
    ELSE IF (\E n \in ps2.out : Contains(n, S_zeckit_lightwalletd)) THEN Success(LwdUri)
    ELSE Failure("HealthCheck")

\* detect_backend on the containers running now; spawn1, spawn2: docker could be run
Detect(spawn1, spawn2) ==
    detect_backend(docker_ps(running, S_zeckit_zaino, spawn1),
                   docker_ps(running, S_zeckit_lightwalletd, spawn2))

\* let server_arg = if backend_uri.contains("lightwalletd") { .. } else { .. }
server_arg(uri) ==
    IF Contains(uri, <<"l", "i", "g", "h", "t", "w", "a", "l", "l", "e", "t", "d">>)
    THEN LwdUri ELSE ZainoUri

----------------------------------------------------------------------------
(* test.rs: the golden stages' wallet commands *)

S_txid == <<"t", "x", "i", "d">>
ShieldPlaceholder == <<"s", "h", "i", "e", "l", "d", "-", "t", "x", "i", "d", "-", "p", "l", "a", "c", "e", "h", "o", "l", "d", "e", "r">>
SendPlaceholder == <<"s", "e", "n", "d", "-", "t", "x", "i", "d", "-", "p", "l", "a", "c", "e", "h", "o", "l", "d", "e", "r">>

\* Command::output() with the exit status: Err(_) when the process could not be
\* run, else its exit status and stdout
Runs(outputs) ==
    {[ok |-> FALSE, success |-> FALSE, out |-> EmptyOutput]} \cup
    { [ok |-> TRUE, success |-> s, out |-> o] : s \in BOOLEAN, o \in outputs }

\* What the scan `for line in stdout.lines() { if line.contains(marker) { .. } }`
\* returns: the quoted text of the first line that has the marker and a pair of
\* quotes, `placeholder` when there is no such line
ScanQuoted(out, marker, placeholder) ==
    LET \* let rest = &line[start+1..], after the first quote of the line
        rest(line) == SubSeq(line, Find(line, <<Q>>) + 1, Len(line))
        \* if let Some(start) = line.find('"') { .. if let Some(end) = rest.find('"')
        HasQuoted(line) == Find(line, <<Q>>) # 0 /\ Find(rest(line), <<Q>>) # 0
        \* rest[..end]: the text between the first two quotes of the line
        Quoted(line) == SubSeq(rest(line), 1, Find(rest(line), <<Q>>) - 1)
        k == FirstOf({n \in 1..Len(out) : Contains(out[n], marker) /\ HasQuoted(out[n])})
    IN IF k = 0 THEN placeholder ELSE Quoted(out[k])

\* d: what detect_backend returned, x: the run of the wallet command
generate_unified_address(d, x) ==
    IF ~d.ok THEN Failure(d.err)
    ELSE IF ~x.ok THEN Failure("HealthCheck")
    ELSE IF x.success
    THEN Success(ScanQuoted(x.out,
                            <<"u", "n", "i", "f", "i", "e", "d", "a", "d", "d", "r", "e", "s", "s">>,
                            <<"u", "a", "-", "p", "l", "a", "c", "e", "h", "o", "l", "d", "e", "r">>))
    ELSE Failure("HealthCheck")

\* fund_address sleeps and returns a fixed string
fund_address ==
    Success(<<"f", "u", "n", "d", "i", "n", "g", "-", "t", "x", "i", "d", "-", "p", "l", "a", "c", "e", "h", "o", "l", "d", "e", "r">>)

autoshield_funds(d, x) ==
    IF ~d.ok THEN Failure(d.err)
    ELSE IF ~x.ok THEN Failure("HealthCheck")
    ELSE IF x.success /\ OutContains(x.out, S_txid)
    THEN Success(ScanQuoted(x.out, S_txid, ShieldPlaceholder))
    ELSE Failure("HealthCheck")

\* shielded_send passing whatever the console printed
shielded_send_NoMarker(d, x) ==
    IF ~d.ok THEN Failure(d.err)
    ELSE IF ~x.ok THEN Failure("HealthCheck")
    ELSE IF x.success
    THEN Success(ScanQuoted(x.out, S_txid, SendPlaceholder))
    ELSE Failure("HealthCheck")

shielded_send(d, x) ==
    IF ~d.ok THEN Failure(d.err)
    ELSE IF ~x.ok THEN Failure("HealthCheck")
    ELSE IF x.success /\ OutContains(x.out, S_txid)
    THEN Success(ScanQuoted(x.out, S_txid, SendPlaceholder))
    ELSE Failure("HealthCheck")

rescan_wallet(d, x) ==
    IF ~d.ok THEN Failure(d.err)
    ELSE IF ~x.ok THEN Failure("HealthCheck")
    ELSE IF x.success THEN Success(<< >>)
    ELSE Failure("HealthCheck")

verify_wallet_state(d, x) ==
    IF ~d.ok THEN Failure(d.err)
    ELSE IF ~x.ok THEN Failure("HealthCheck")
    ELSE IF x.success /\ OutContains(x.out, <<"O", "r", "c", "h", "a", "r", "d">>) THEN Success(<< >>)
    ELSE Failure("HealthCheck")

\* outputs of `new --address`
NewAddressOutputs ==
    { EmptyOutput,
      ErrorOutput,
      << <<"{">>, <<" ", " ">> \o <<Q>> \o <<"u", "n", "i", "f", "i", "e", "d", "a", "d", "d", "r", "e", "s", "s">> \o <<Q>> \o <<":", " ">> \o <<Q>> \o <<"u", "r", "e", "g", "t", "e", "s", "t", "1", "q", "q">> \o <<Q>> \o <<",">>, <<"}">> >>,
      << <<"u", "n", "i", "f", "i", "e", "d", "a", "d", "d", "r", "e", "s", "s", ":", " ">> \o <<Q>> \o <<"u", "r", "e", "g", "t", "e", "s", "t", "1", "q", "q">> \o <<Q>> >>,
      << <<"u", "n", "i", "f", "i", "e", "d", "a", "d", "d", "r", "e", "s", "s", " ", "u", "r", "e", "g", "t", "e", "s", "t", "1", "q", "q">> >> }

\* outputs of the scripts `autoshield; confirm; quit` and `send 0.1; confirm; quit`
TxOutputs ==
    { EmptyOutput,
      ErrorOutput,
      << <<"{">>, <<" ", " ">> \o <<Q>> \o <<"t", "x", "i", "d">> \o <<Q>> \o <<":", " ">> \o <<Q>> \o <<"a", "b", "1", "2">> \o <<Q>>, <<"}">> >>,
      << <<"t", "x", "i", "d", ":", " ">> \o <<Q>> \o <<"a", "b", "1", "2">> \o <<Q>> >>,
      << <<"t", "x", "i", "d", ":", " ">> \o <<Q>> \o <<Q>> >>,
      << <<"t", "x", "i", "d", " ", "a", "b", "1", "2">> >>,
      << <<"E", "r", "r", "o", "r", ":", " ", "n", "o", " ", "t", "x", "i", "d", " ", "c", "r", "e", "a", "t", "e", "d">> >>,
      << <<"t", "x", "i", "d", " ", "p", "e", "n", "d", "i", "n", "g">>, <<"i", "d", " ">> \o <<Q>> \o <<"a", "b", "1", "2">> \o <<Q>> >> }

----------------------------------------------------------------------------
(* test.rs: the wallet balance *)

S_transparent_balance == <<"c", "o", "n", "f", "i", "r", "m", "e", "d", "_", "t", "r", "a", "n", "s", "p", "a", "r", "e", "n", "t", "_", "b", "a", "l", "a", "n", "c", "e">>
S_orchard_balance == <<"c", "o", "n", "f", "i", "r", "m", "e", "d", "_", "o", "r", "c", "h", "a", "r", "d", "_", "b", "a", "l", "a", "n", "c", "e">>

\* bal as f64 / 100_000_000.0: a balance is kept as its integer amount, and 1.0 is
\* this many of them
ZatoshiPerZec == 100000000

DigitChars == <<"0", "1", "2", "3", "4", "5", "6", "7", "8", "9">>

RECURSIVE NatValue(_)
NatValue(s) ==
    IF s = << >> THEN 0
    ELSE 10 * NatValue(SubSeq(s, 1, Len(s) - 1))
         + (CHOOSE k \in 1..10 : DigitChars[k] = s[Len(s)]) - 1

\* str::parse::<i64>: an optional sign and one or more digits (the literals of the
\* modelled outputs are far below i64::MAX)
ParseI64(s) ==
    LET signed == s # << >> /\ s[1] \in {"+", "-"}
        digits == IF signed THEN Tail(s) ELSE s
    IN IF digits = << >> \/ \E k \in 1..Len(digits) : digits[k] \notin {DigitChars[j] : j \in 1..10}
       THEN [ok |-> FALSE, val |-> 0]
       ELSE [ok |-> TRUE,
             val |-> IF signed /\ s[1] = "-" THEN 0 - NatValue(digits) ELSE NatValue(digits)]

\* the literal of a line of the balance output, as the loop of get_wallet_balance
\* reads it
BalanceLiteral(line) ==
    LET \* line.split(':').nth(1), for a line with a colon
        SecondField ==
            LET rest == SubSeq(line, Find(line, <<":">>) + 1, Len(line))
            IN IF Find(rest, <<":">>) = 0 THEN rest
               ELSE SubSeq(rest, 1, Find(rest, <<":">>) - 1)
        \* str::trim
        Trim(t) ==
            LET keep == {k \in 1..Len(t) : t[k] \notin {" ", "\t", "\n", "\r"}}
            IN IF keep = {} THEN << >>
               ELSE SubSeq(t, CHOOSE k \in keep : \A j \in keep : k <= j,
                              CHOOSE k \in keep : \A j \in keep : k >= j)
        \* .replace("_", "").replace(",", "")
        Ungroup(t) == SelectSeq(t, LAMBDA c : c \notin {"_", ","})
    IN ParseI64(Ungroup(Trim(SecondField)))

\* the value the loop leaves in a balance variable: that of the last line which
\* contains `name`, has a colon and a literal that parses; 0.0 without such a line
BalanceOf(out, name) ==
    LET hits == {k \in 1..Len(out) :
                    /\ Contains(out[k], name)
                    /\ Find(out[k], <<":">>) # 0
                    /\ BalanceLiteral(out[k]).ok}
    IN IF hits = {} THEN 0
       ELSE BalanceLiteral(out[CHOOSE k \in hits : \A j \in hits : k >= j]).val

\* a get_wallet_balance that gives up at a balance line it cannot read
get_wallet_balance_Strict(x) ==
    IF ~x.ok
       \/ \E k \in 1..Len(x.out) :
            /\ Contains(x.out[k], S_transparent_balance) \/ Contains(x.out[k], S_orchard_balance)
            /\ Find(x.out[k], <<":">>) = 0 \/ ~BalanceLiteral(x.out[k]).ok
    THEN [ok |-> FALSE, pair |-> <<0, 0>>]
    ELSE [ok |-> TRUE,
          pair |-> <<BalanceOf(x.out, S_transparent_balance),
                     BalanceOf(x.out, S_orchard_balance)>>]

\* get_wallet_balance: Err(_) when docker could not be run, else Ok((transparent,
\* orchard))
get_wallet_balance(x) ==
    IF ~x.ok THEN [ok |-> FALSE, pair |-> <<0, 0>>]
    ELSE [ok |-> TRUE,
          pair |-> <<BalanceOf(x.out, S_transparent_balance),
                     BalanceOf(x.out, S_orchard_balance)>>]

\* the console's report with the two fields' literals, a line `  "<name>": <literal>,`
\* for each
BalanceReport(t, o) ==
    << <<"{">>,
       <<" ", " ", Q>> \o S_transparent_balance \o <<Q, ":", " ">> \o t \o <<",">>,
       <<" ", " ", Q>> \o S_orchard_balance \o <<Q, ":", " ">> \o o \o <<",">>,
       <<"}">> >>

\* outputs of the script `balance; quit`
BalanceOutputs ==
    { EmptyOutput,
      ErrorOutput,
      BalanceReport(<<"0">>, <<"0">>),
      BalanceReport(<<"5", "0", "_", "0", "0", "0", "_", "0", "0", "0">>, <<"0">>),
      BalanceReport(<<"1", "0", "0", "_", "0", "0", "0", "_", "0", "0", "0">>, <<"0">>),
      BalanceReport(<<"6", "2", "5", "_", "0", "0", "0", "_", "0", "0", "0">>, <<"2", "5", "0", "_", "0", "0", "0", "_", "0", "0", "0">>),
      BalanceReport(<<"0">>, <<"1", "0", "0", "_", "0", "0", "0", "_", "0", "0", "0">>),
      BalanceReport(<<"0">>, <<"5", "_", "0", "0", "0">>),
      BalanceReport(<<"5", " ", "Z", "E", "C">>, <<"0">>) }

----------------------------------------------------------------------------
(* test.rs: the smoke checks *)

\* Answers of a REST request sent without a timeout: `json` says whether the body
\* is JSON, `fields` which of the fields looked for it has
RestAnswers ==
    TransportFailures \cup
    { [kind |-> "http", status |-> st, json |-> j, fields |-> f] :
        st \in {200, 503}, j \in BOOLEAN,
        f \in SUBSET {"faucet_address", "current_balance", "address"} }

test_zebra_rpc(r) ==
    IF ~Sent(r) THEN "Err"
    ELSE IF ~IsSuccess(r.status) THEN "Err"
    ELSE "Ok"

test_faucet_health(r) ==
    IF ~Sent(r) THEN "Err"
    ELSE IF ~IsSuccess(r.status) THEN "Err"
    ELSE "Ok"

test_faucet_stats(r) ==
    IF ~Sent(r) THEN "Err"
    ELSE IF ~IsSuccess(r.status) THEN "Err"
    ELSE IF ~r.json THEN "Err"
    ELSE IF "faucet_address" \notin r.fields THEN "Err"
    ELSE IF "current_balance" \notin r.fields THEN "Err"
    ELSE "Ok"

test_faucet_address(r) ==
    IF ~Sent(r) THEN "Err"
    ELSE IF ~IsSuccess(r.status) THEN "Err"
    ELSE IF ~r.json THEN "Err"
    ELSE IF "address" \notin r.fields THEN "Err"
    ELSE "Ok"

\* outputs of the script `shield; confirm; quit`
ShieldOutputs ==
    { EmptyOutput,
      << <<"{">>, <<" ", " ">> \o <<Q>> \o <<"t", "x", "i", "d">> \o <<Q>> \o <<":", " ">> \o <<Q>> \o <<"a", "b", "1", "2">> \o <<Q>>, <<"}">> >>,
      << <<"t", "x", "i", "d", ":", " ">> \o <<Q>> \o <<Q>> >>,
      << <<"e", "r", "r", "o", "r", ":", " ", "n", "o", " ", "t", "x", "i", "d", " ", "c", "r", "e", "a", "t", "e", "d">> >>,
      << <<"e", "r", "r", "o", "r", ":", " ", "i", "n", "s", "u", "f", "f", "i", "c", "i", "e", "n", "t", " ", "f", "u", "n", "d", "s">> >>,
      << <<"T", "h", "e", " ", "t", "r", "a", "n", "s", "a", "c", "t", "i", "o", "n", " ", "r", "e", "q", "u", "i", "r", "e", "s", " ", "a", "n", " ", "a", "d", "d", "i", "t", "i", "o", "n", "a", "l", " ", "c", "h", "a", "n", "g", "e", " ", "o", "u", "t", "p", "u", "t">> >>,
      << <<"s", "h", "i", "e", "l", "d", ":", " ", "n", "o", "t", "h", "i", "n", "g", " ", "t", "o", " ", "d", "o">> >> }

\* test.rs 224-283: the branch of test_wallet_shield the shield response selects
ShieldBranch(out) ==
    IF OutContains(out, S_txid) THEN "txid"
    ELSE IF OutContains(out, <<"e", "r", "r", "o", "r">>) \/ OutContains(out, <<"a", "d", "d", "i", "t", "i", "o", "n", "a", "l", " ", "c", "h", "a", "n", "g", "e", " ", "o", "u", "t", "p", "u", "t">>)
    THEN "error"
    ELSE "unclear"

\* BalanceBranch sending the shield command for any transparent balance
BalanceBranch_ShieldAny(pair) ==
    IF pair[1] > 0 THEN "shield"
    ELSE IF pair[2] >= ZatoshiPerZec THEN "already_shielded"
    ELSE "skip_no_balance"

\* test.rs 207-305: the branch the balance selects
BalanceBranch(pair) ==
    IF pair[1] >= ZatoshiPerZec THEN "shield"
    ELSE IF pair[2] >= ZatoshiPerZec THEN "already_shielded"
    ELSE IF pair[1] > 0 THEN "skip_too_small"
    ELSE "skip_no_balance"

----------------------------------------------------------------------------
(* The state machine of test::execute. A result is what one check or stage     *)
(* returned: its number, Ok or Err with the error's kind, the value of an Ok,   *)
(* and the branch of the check that returned.                                   *)

BalanceMaxAttempts == 180
BalancePollSleep == 1
ConfirmWait == 30
SyncWait == 5
FundWait == 5

TestInit ==
    /\ golden \in BOOLEAN
    /\ running \in SUBSET ContainerNames
    /\ pc = IF golden THEN "Golden" ELSE "Check1"
    /\ backend = << >>
    /\ ret = "none"
    /\ elapsed = 0
    /\ attempt = 0
    /\ lastProbe = NoProbe
    /\ lastSleep = 0
    /\ cmds = << >>
    /\ tAddress = << >>
    /\ passed = 0
    /\ failed = 0
    /\ results = << >>
    /\ balance = <<0, 0>>
    /\ lastOut = << >>
    /\ config = << >>
    /\ configBefore = << >>
    /\ answer = NoAnswer
    /\ NoBootstrap

\* the operator starts or stops backend containers while the run goes on
Reconfigure ==
    /\ pc \notin {"Done", "Failed"}
    /\ \E s \in SUBSET ContainerNames : s # running /\ running' = s
    /\ UNCHANGED <<pc, backend, ret, elapsed, attempt, lastProbe, lastSleep, cmds, tAddress,
                   upVars, golden, passed, failed, results, balance, lastOut, config, configBefore,
                   answer>>

Result(n, outcome, err, val, note) ==
    [n |-> n, outcome |-> outcome, err |-> err, val |-> val, note |-> note]

\* a wallet command with the --server it is given; a command a poll repeats is
\* listed once
Log(cmd, server) ==
    LET c == [cmd |-> cmd, server |-> server]
    IN IF cmds # << >> /\ cmds[Len(cmds)] = c THEN cmds ELSE Append(cmds, c)

DetectionProbe(d) ==
    [poll |-> "detect_backend", outcome |-> IF d.ok THEN "Ok" ELSE d.err, uri |-> d.val]

\* Tally leaving the run at the first check that fails
Tally_ShortCircuit(n, res, note, next) ==
    /\ results' = Append(results, Result(n, IF res = "Ok" THEN "Ok" ELSE "Err",
                                         IF res = "Ok" THEN "none" ELSE res, << >>, note))
    /\ passed' = IF res = "Ok" THEN passed + 1 ELSE passed
    /\ failed' = IF res = "Ok" THEN failed ELSE failed + 1
    /\ pc' = IF res = "Ok" THEN next ELSE "Summary"

\* test.rs 24-85: the match on a check's result (res: Ok, or the kind of its
\* error): count it and go on
Tally(n, res, note, next) ==
    /\ results' = Append(results, Result(n, IF res = "Ok" THEN "Ok" ELSE "Err",
                                         IF res = "Ok" THEN "none" ELSE res, << >>, note))
    /\ passed' = IF res = "Ok" THEN passed + 1 ELSE passed
    /\ failed' = IF res = "Ok" THEN failed ELSE failed + 1
    /\ pc' = next

\* a check that is one request
RequestCheck(here, n, res, next) ==
    /\ pc = here
    /\ Tally(n, res, "request", next)
    /\ lastProbe' = NoProbe
    /\ UNCHANGED <<backend, ret, elapsed, attempt, lastSleep, cmds, tAddress, upVars,
                   running, golden, balance, lastOut, config, configBefore,
                   answer>>

\* test.rs 22-33
ZebraRpcCheck == \E r \in RpcAnswers : RequestCheck("Check1", 1, test_zebra_rpc(r), "Check2")

\* test.rs 35-46
FaucetHealthCheck ==
    \E r \in FaucetAnswers : RequestCheck("Check2", 2, test_faucet_health(r), "Check3")

\* test.rs 48-59
FaucetStatsCheck ==
    \E r \in RestAnswers : RequestCheck("Check3", 3, test_faucet_stats(r), "Check4")

\* test.rs 61-72
FaucetAddressCheck ==
    \E r \in RestAnswers : RequestCheck("Check4", 4, test_faucet_address(r), "Check5")

\* test.rs 74-76 with 191-196: check 5 begins with detect_backend()?
ShieldDetect ==
    /\ pc = "Check5"
    /\ \E spawn1, spawn2 \in BOOLEAN :
        LET d == Detect(spawn1, spawn2)
        IN /\ lastProbe' = DetectionProbe(d)
           /\ IF d.ok
              THEN /\ backend' = d.val
                   /\ pc' = "Balance5"
                   /\ UNCHANGED <<results, passed, failed>>
              ELSE /\ Tally(5, d.err, "detect", "Summary")
                   /\ UNCHANGED backend
    /\ attempt' = 0
    /\ UNCHANGED <<ret, elapsed, lastSleep, cmds, tAddress, upVars, running, golden,
                   balance, lastOut, config, configBefore,
                   answer>>

\* what get_wallet_balance can return
BalanceReadings == { get_wallet_balance(x) : x \in ExecResults(BalanceOutputs) }

\* test.rs 201: one pass of the loop of wait_for_wallet_balance (310-335) and, when
\* it returns, the branch of test_wallet_shield on the balance (207, 285-305)
BalancePoll ==
    /\ pc = "Balance5"
    /\ cmds' = Log("balance", backend)
    /\ \E g \in BalanceReadings :
        LET found == g.pair[1] > 0 \/ g.pair[2] > 0
            exhausted == attempt + 1 >= BalanceMaxAttempts
            pair == IF found THEN g.pair ELSE <<0, 0>>
            \* the passes between the first `Window` and the last `Window` of the
            \* attempts are taken together: a pass that finds no balance adds one
            \* to the count and changes nothing else
            skipped == IF attempt + 1 > Window /\ attempt + 1 < BalanceMaxAttempts - Window
                       THEN BalanceMaxAttempts - Window - (attempt + 1) ELSE 0
        IN IF ~g.ok
           THEN /\ Tally(5, "HealthCheck", "balance_failed", "Summary")
                /\ lastProbe' = [poll |-> "wait_for_wallet_balance", outcome |-> "Err"]
                /\ lastSleep' = 0
                /\ attempt' = 0
                /\ UNCHANGED balance
           ELSE IF ~found /\ ~exhausted
           THEN /\ attempt' = attempt + 1 + skipped
                /\ lastProbe' = [poll |-> "wait_for_wallet_balance", outcome |-> "none"]
                /\ lastSleep' = BalancePollSleep
                /\ UNCHANGED <<pc, results, passed, failed, balance>>
           ELSE /\ balance' = pair
                /\ attempt' = 0
                /\ lastProbe' = [poll |-> "wait_for_wallet_balance", outcome |-> "Ok"]
                /\ lastSleep' = 0
                /\ IF BalanceBranch(pair) = "shield"
                   THEN pc' = "Shield5" /\ UNCHANGED <<results, passed, failed>>
                   ELSE Tally(5, "Ok", BalanceBranch(pair), "Summary")
    /\ UNCHANGED <<backend, ret, elapsed, tAddress, upVars, running, golden, lastOut, config, configBefore,
                   answer>>

\* test.rs 207-222, 269-283: the shield command and the branches without a txid
Shield ==
    /\ pc = "Shield5"
    /\ cmds' = Log("shield", backend)
    /\ \E x \in ExecResults(ShieldOutputs) :
        /\ lastOut' = x.out
        /\ IF ~x.ok THEN Tally(5, "HealthCheck", "shield_failed", "Summary")
           ELSE IF ShieldBranch(x.out) = "txid"
           THEN pc' = "Confirm5" /\ UNCHANGED <<results, passed, failed>>
           ELSE Tally(5, "Ok", ShieldBranch(x.out), "Summary")
    /\ lastProbe' = NoProbe
    /\ lastSleep' = 0
    /\ UNCHANGED <<backend, ret, elapsed, attempt, tAddress, upVars, running, golden,
                   balance, config, configBefore,
                   answer>>

\* test.rs 224-267: the shield response has "txid": wait, read the balance again
ConfirmShield ==
    /\ pc = "Confirm5"
    /\ cmds' = Log("balance", backend)
    /\ lastSleep' = ConfirmWait + SyncWait
    /\ \E g \in BalanceReadings :
           IF ~g.ok THEN Tally(5, "HealthCheck", "balance_failed", "Summary")
           ELSE IF g.pair[2] > balance[2] \/ g.pair[1] < balance[1]
           THEN Tally(5, "Ok", "shielded", "Summary")
           ELSE Tally(5, "Ok", "not_updated", "Summary")
    /\ lastProbe' = NoProbe
    /\ UNCHANGED <<backend, ret, elapsed, attempt, tAddress, upVars, running, golden,
                   balance, lastOut, config, configBefore,
                   answer>>

\* SmokeVerdict that never fails the run
SmokeVerdict_Lenient(f) == "Ok"

\* test.rs 94-100: Err when failed > 0
SmokeVerdict(f) == IF f > 0 THEN "HealthCheck" ELSE "Ok"

\* test.rs 87-100: the counts are printed and the run returns
Summary ==
    /\ pc = "Summary"
    /\ ret' = SmokeVerdict(failed)
    /\ pc' = IF SmokeVerdict(failed) = "Ok" THEN "Done" ELSE "Failed"
    /\ UNCHANGED <<backend, elapsed, attempt, lastProbe, lastSleep, cmds, tAddress, upVars,
                   testVars>>

\* test.rs 405-419: run_golden_e2e begins with detect_backend()?
GoldenDetect ==
    /\ pc = "Golden"
    /\ \E spawn1, spawn2 \in BOOLEAN :
        LET d == Detect(spawn1, spawn2)
        IN /\ lastProbe' = DetectionProbe(d)
           /\ IF d.ok
              THEN backend' = d.val /\ pc' = "Stage1" /\ UNCHANGED ret
              ELSE pc' = "Failed" /\ ret' = d.err /\ UNCHANGED backend
    /\ UNCHANGED <<elapsed, attempt, lastSleep, cmds, tAddress, upVars, testVars>>

\* One stage of run_golden_e2e: the stage's function has detected the backend (d),
\* sent its wallet command with the server_arg of what it detected, and returned
\* r; Err(e) => return Err(e).
GoldenStage(here, n, d, cmd, r, next) ==
    /\ pc = here
    /\ lastProbe' = DetectionProbe(d)
    /\ cmds' = IF d.ok THEN Log(cmd, server_arg(d.val)) ELSE cmds
    /\ results' = Append(results, Result(n, IF r.ok THEN "Ok" ELSE "Err", r.err, r.val, "stage"))
    /\ pc' = IF r.ok THEN next ELSE "Failed"
    /\ ret' = IF ~r.ok THEN r.err ELSE IF next = "Done" THEN "Ok" ELSE ret
    /\ lastSleep' = 0
    /\ UNCHANGED <<backend, elapsed, attempt, tAddress, upVars, running, golden, passed,
                   failed, balance, config, configBefore,
                   answer>>

\* test.rs 421-431 with generate_unified_address
GoldenUa ==
    \E spawn1, spawn2 \in BOOLEAN, x \in Runs(NewAddressOutputs) :
        LET d == Detect(spawn1, spawn2)
        IN /\ GoldenStage("Stage1", 1, d, "new --address", generate_unified_address(d, x),
                          "Stage2")
           /\ UNCHANGED lastOut

\* test.rs 433-443 with fund_address, which sleeps and sends nothing
GoldenFund ==
    /\ pc = "Stage2"
    /\ results' = Append(results, Result(2, "Ok", "none", fund_address.val, "stage"))
    /\ pc' = "Stage3"
    /\ lastSleep' = FundWait
    /\ lastProbe' = NoProbe
    /\ UNCHANGED <<backend, ret, elapsed, attempt, cmds, tAddress, upVars, running, golden,
                   passed, failed, balance, lastOut, config, configBefore,
                   answer>>

\* test.rs 445-455 with autoshield_funds
GoldenAutoshield ==
    \E spawn1, spawn2 \in BOOLEAN, x \in Runs(TxOutputs) :
        LET d == Detect(spawn1, spawn2)
        IN /\ GoldenStage("Stage3", 3, d, "autoshield", autoshield_funds(d, x), "Stage4")
           /\ lastOut' = IF d.ok THEN x.out ELSE lastOut

\* test.rs 457-467 with shielded_send
GoldenSend ==
    \E spawn1, spawn2 \in BOOLEAN, x \in Runs(TxOutputs) :
        LET d == Detect(spawn1, spawn2)
        IN /\ GoldenStage("Stage4", 4, d, "send 0.1", shielded_send(d, x), "Stage5")
           /\ lastOut' = IF d.ok THEN x.out ELSE lastOut

\* test.rs 469-479 with rescan_wallet
GoldenRescan ==
    \E spawn1, spawn2 \in BOOLEAN,
       x \in Runs({ EmptyOutput, ErrorOutput, << <<"r", "e", "s", "c", "a", "n", " ", "d", "o", "n", "e">> >> }) :
        LET d == Detect(spawn1, spawn2)
        IN /\ GoldenStage("Stage5", 5, d, "rescan", rescan_wallet(d, x), "Stage6")
           /\ UNCHANGED lastOut

\* test.rs 481-498 with verify_wallet_state
GoldenVerify ==
    \E spawn1, spawn2 \in BOOLEAN,
       x \in Runs({ EmptyOutput, ErrorOutput, << <<"O", "r", "c", "h", "a", "r", "d", ":", " ", "1", "0", "0", "0", "0">> >>, << <<"o", "r", "c", "h", "a", "r", "d", ":", " ", "1", "0", "0", "0", "0">> >> }) :
        LET d == Detect(spawn1, spawn2)
        IN /\ GoldenStage("Stage6", 6, d, "balance", verify_wallet_state(d, x), "Done")
           /\ UNCHANGED lastOut

TestNext ==
    \/ Reconfigure
    \/ ZebraRpcCheck
    \/ FaucetHealthCheck
    \/ FaucetStatsCheck
    \/ FaucetAddressCheck
    \/ ShieldDetect
    \/ BalancePoll
    \/ Shield
    \/ ConfirmShield
    \/ Summary
    \/ GoldenDetect
    \/ GoldenUa
    \/ GoldenFund
    \/ GoldenAutoshield
    \/ GoldenSend
    \/ GoldenRescan
    \/ GoldenVerify

TestSpec == TestInit /\ [][TestNext]_vars

----------------------------------------------------------------------------
(* up.rs: the text update_zebra_miner_address writes to zebra.toml *)

S_miner_address == <<"m", "i", "n", "e", "r", "_", "a", "d", "d", "r", "e", "s", "s">>
S_mining == <<"[", "m", "i", "n", "i", "n", "g", "]">>

\* format!("miner_address = \"{}\"", address)
MinerField(address) == S_miner_address \o <<" ", "=", " ">> \o <<Q>> \o address \o <<Q>>

\* the regex miner_address = "tm[a-zA-Z0-9]+" tried at position k of s: the length
\* of the match, 0 when there is none. The class is followed by a quote, so the
\* greedy run of the class is the only candidate.
MatchLen(s, k) ==
    LET head == S_miner_address \o <<" ", "=", " ">> \o <<Q>> \o S_tm
        rest == SubSeq(s, k + Len(head), Len(s))
        \* [a-zA-Z0-9]
        AlphaNum ==
            {"a", "b", "c", "d", "e", "f", "g", "h", "i", "j", "k", "l", "m", "n", "o", "p", "q",
             "r", "s", "t", "u", "v", "w", "x", "y", "z", "A", "B", "C", "D", "E", "F", "G", "H",
             "I", "J", "K", "L", "M", "N", "O", "P", "Q", "R", "S", "T", "U", "V", "W", "X", "Y",
             "Z", "0", "1", "2", "3", "4", "5", "6", "7", "8", "9"}
        stop == FirstOf({j \in 1..Len(rest) : rest[j] \notin AlphaNum})
    IN IF ~StartsWith(SubSeq(s, k, Len(s)), head) THEN 0
       ELSE IF stop > 1 /\ rest[stop] = Q THEN Len(head) + stop
       ELSE 0

\* str::replace(from, to): every non-overlapping occurrence, from the left
RECURSIVE Replace(_, _, _)
Replace(s, from, to) ==
    LET k == Find(s, from)
    IN IF k = 0 THEN s
       ELSE SubSeq(s, 1, k - 1) \o to \o Replace(SubSeq(s, k + Len(from), Len(s)), from, to)

\* a patch that inserts a field after the header whether or not the file has one
new_config_Append(cfg, address) ==
    Replace(cfg, S_mining, S_mining \o <<"\n">> \o MinerField(address))

\* up.rs 381-390: Regex::replace rewrites the leftmost match only and returns the
\* text as it is when there is none (an address of letters and digits holds no
\* `$` for the replacement to expand)
new_config(cfg, address) ==
    IF Contains(cfg, S_miner_address)
    THEN LET k == FirstOf({i \in 1..Len(cfg) : MatchLen(cfg, i) > 0})
         IN IF k = 0 THEN cfg
            ELSE SubSeq(cfg, 1, k - 1) \o MinerField(address)
                     \o SubSeq(cfg, k + MatchLen(cfg, k), Len(cfg))
    ELSE Replace(cfg, S_mining, S_mining \o <<"\n">> \o MinerField(address))

----------------------------------------------------------------------------
(* The state machine of update_zebra_miner_address on a zebra.toml *)

RECURSIVE Unlines(_)
Unlines(ls) == IF ls = << >> THEN << >> ELSE Head(ls) \o <<"\n">> \o Unlines(Tail(ls))

\* the zebra.toml files the patch is applied to: up to MaxConfigLines lines, each a
\* section header, a miner_address field or a commented field
ConfigFiles ==
    LET ConfigLines ==
            { S_mining,
              <<"[", "n", "e", "t", "w", "o", "r", "k", "]">>,
              MinerField(S_tm \o <<"Q", "7", "x">>),
              MinerField(<<"t", "1", "Q", "7", "x">>),
              <<"#", " ">> \o MinerField(<<"t", "2", "7", "e">>) }
    IN {Unlines(ls) : ls \in UNION {[1..n -> ConfigLines] : n \in 0..MaxConfigLines}}

\* the address is one get_wallet_transparent_address returns: tm and more than 28
\* further characters
ConfigInit ==
    /\ pc = "update_zebra_miner_address"
    /\ config \in ConfigFiles
    /\ configBefore = config
    /\ answer = NoAnswer
    /\ tAddress \in {S_tm \o Rep(c, MinTAddrLen - 1) : c \in {"A", "9"}}
    /\ backend = "none"
    /\ ret = "none"
    /\ elapsed = 0
    /\ attempt = 0
    /\ lastProbe = NoProbe
    /\ lastSleep = 0
    /\ cmds = << >>
    /\ NoBootstrap
    /\ running = {}
    /\ golden = FALSE
    /\ passed = 0
    /\ failed = 0
    /\ results = << >>
    /\ balance = <<0, 0>>
    /\ lastOut = << >>

\* up.rs 375-396
SetMinerAddress ==
    /\ pc = "update_zebra_miner_address"
    /\ \E readOk, writeOk \in BOOLEAN :
        LET r == update_zebra_miner_address(readOk, writeOk)
            \* fs::write(path, new): the file is opened with truncation and the text
            \* written from its start; a failure leaves what was there before the
            \* open, or what had been written when it happened
            Written(old, new) ==
                IF writeOk THEN {new}
                ELSE {old} \cup {SubSeq(new, 1, n) : n \in 0..(Len(new) - 1)}
        IN /\ configWrites' = configWrites + r.writes
           /\ ret' = IF r.ok THEN "Ok" ELSE "Config"
           /\ config' \in IF readOk
                          THEN Written(config, new_config(config, tAddress))
                          ELSE {config}
    /\ configBefore' = config
    /\ pc' = "Returned"
    /\ UNCHANGED <<backend, fresh, stage, status, elapsed, inner, attempt, lastProbe,
                   lastSleep, cmds, warnings, tAddress, uaAddress, fixtureWrites, height,
                   reported, timedOut, failures, running, golden, passed, failed,
                   results, balance, lastOut, answer>>

\* up.rs 193: after a patch that succeeded `zeckit up` is run again and finds the
\* same address
CallAgain ==
    /\ pc = "Returned"
    /\ ret = "Ok"
    /\ configWrites < MaxCalls
    /\ pc' = "update_zebra_miner_address"
    /\ ret' = "none"
    /\ UNCHANGED <<backend, fresh, stage, status, elapsed, inner, attempt, lastProbe,
                   lastSleep, cmds, warnings, tAddress, uaAddress, configWrites,
                   fixtureWrites, height, reported, timedOut, failures, testVars>>

ConfigNext == SetMinerAddress \/ CallAgain

ConfigSpec == ConfigInit /\ [][ConfigNext]_vars

----------------------------------------------------------------------------
(* The parsing helpers and the single-shot probes, each called on its own: on *)
(* the output one wallet command printed, or with one answer to its request   *)

HelperInit ==
    /\ \/ /\ pc = "Console"
          /\ lastOut \in
                TAddressOutputs \cup AddressesOutputs \cup NewAddressOutputs \cup TxOutputs
                \cup BalanceOutputs \cup
                { SubSeq(BalanceReport(<<"1", "5", "0", "_", "0", "0", "0", "_", "0", "0", "0">>, <<"0">>), 2, 2),
                  SubSeq(BalanceReport(<<"1", "5", "0", "_", "0", "0", "0", "_", "0", "0", "0">>, <<"0">>), 3, 3),
                  BalanceReport(<<"-", "5">>, <<"0">>),
                  BalanceReport(<<"2", "0", "0">>, <<"n", "/", "a">>),
                  BalanceReport(<<"n", "/", "a">>, <<"2", "0", "0">>),
                  BalanceReport(<<"1", ",", "0", "0", "0">>, <<"2", "_", "0", "0", "0">>),
                  BalanceReport(<<"1", "5", "0", "_", "0", "0", "0", "_", "0", "0", "0">>, <<"0">>)
                      \o << <<" ", " ">> \o <<Q>> \o <<"u", "n">> \o S_transparent_balance
                                \o <<Q>> \o <<":", " ", "7", ",">> >>,
                  << S_transparent_balance \o <<":", " ", "3", ",", " ">> \o S_orchard_balance \o <<":", " ", "4">> >> }
          /\ answer = NoAnswer
          /\ backend = "none"
       \/ /\ pc = "Request"
          /\ lastOut = << >>
          /\ answer \in RpcAnswers \cup FaucetAnswers \cup BackendAnswers
          /\ backend \in Backends
    /\ ret = "none"
    /\ elapsed = 0
    /\ attempt = 0
    /\ lastProbe = NoProbe
    /\ lastSleep = 0
    /\ cmds = << >>
    /\ tAddress = << >>
    /\ NoBootstrap
    /\ running = {}
    /\ golden = FALSE
    /\ passed = 0
    /\ failed = 0
    /\ results = << >>
    /\ balance = <<0, 0>>
    /\ config = << >>
    /\ configBefore = << >>

\* test.rs 337-373 on the output of `balance`
WalletBalance ==
    /\ pc = "Console"
    /\ LET g == get_wallet_balance([ok |-> TRUE, out |-> lastOut])
       IN /\ balance' = g.pair
          /\ ret' = IF g.ok THEN "Ok" ELSE "Err"
    /\ pc' = "get_wallet_balance"
    /\ UNCHANGED <<backend, elapsed, attempt, lastProbe, lastSleep, cmds, tAddress, upVars,
                   running, golden, passed, failed, results, lastOut, config, configBefore,
                   answer>>

\* up.rs 344-373 on the output of `t_addresses`
TransparentAddress ==
    /\ pc = "Console"
    /\ LET g == get_wallet_transparent_address([ok |-> TRUE, out |-> lastOut])
       IN /\ tAddress' = g.addr
          /\ ret' = IF g.ok THEN "Ok" ELSE "Err"
    /\ pc' = "get_wallet_transparent_address"
    /\ UNCHANGED <<backend, elapsed, attempt, lastProbe, lastSleep, cmds, upVars, testVars>>

\* up.rs 413-452 on the output of `addresses`
UaFixtures ==
    /\ pc = "Console"
    /\ \E dirOk, writeOk \in BOOLEAN :
        LET g == generate_ua_fixtures([ok |-> TRUE, out |-> lastOut], dirOk, writeOk)
        IN /\ uaAddress' = g.addr
           /\ fixtureWrites' = fixtureWrites + g.writes
           /\ ret' = IF g.ok THEN "Ok" ELSE "Err"
    /\ pc' = "generate_ua_fixtures"
    /\ UNCHANGED <<backend, fresh, stage, status, elapsed, inner, attempt, lastProbe,
                   lastSleep, cmds, warnings, tAddress, configWrites, height, reported,
                   timedOut, failures, testVars>>

\* test.rs 501-537 on the output of `new --address`, with either exit status
UnifiedAddress ==
    /\ pc = "Console"
    /\ \E success \in BOOLEAN :
        LET r == generate_unified_address(Success(ZainoUri),
                     [ok |-> TRUE, success |-> success, out |-> lastOut])
        IN /\ results' = << Result(1, IF r.ok THEN "Ok" ELSE "Err", r.err, r.val, "stage") >>
           /\ ret' = IF r.ok THEN "Ok" ELSE "Err"
    /\ pc' = "generate_unified_address"
    /\ UNCHANGED <<backend, elapsed, attempt, lastProbe, lastSleep, cmds, tAddress, upVars,
                   running, golden, passed, failed, balance, lastOut, config, configBefore,
                   answer>>

\* test.rs 546-580 on the output of `autoshield`, with either exit status
AutoshieldTxid ==
    /\ pc = "Console"
    /\ \E success \in BOOLEAN :
        LET r == autoshield_funds(Success(ZainoUri),
                     [ok |-> TRUE, success |-> success, out |-> lastOut])
        IN /\ results' = << Result(3, IF r.ok THEN "Ok" ELSE "Err", r.err, r.val, "stage") >>
           /\ ret' = IF r.ok THEN "Ok" ELSE "Err"
    /\ pc' = "autoshield_funds"
    /\ UNCHANGED <<backend, elapsed, attempt, lastProbe, lastSleep, cmds, tAddress, upVars,
                   running, golden, passed, failed, balance, lastOut, config, configBefore,
                   answer>>

\* health.rs 73-92
ZebraProbe ==
    /\ pc = "Request"
    /\ answer \in RpcAnswers
    /\ lastProbe' = [poll |-> "check_zebra", outcome |-> check_zebra(answer)]
    /\ ret' = check_zebra(answer)
    /\ pc' = "check_zebra"
    /\ UNCHANGED <<backend, elapsed, attempt, lastSleep, cmds, tAddress, upVars, testVars>>

\* up.rs 324-342
BlockCount ==
    /\ pc = "Request"
    /\ answer \in RpcAnswers
    /\ height' = get_block_count(answer).height
    /\ ret' = IF get_block_count(answer).ok THEN "Ok" ELSE "Err"
    /\ pc' = "get_block_count"
    /\ UNCHANGED <<backend, fresh, stage, status, elapsed, inner, attempt, lastProbe,
                   lastSleep, cmds, warnings, tAddress, uaAddress, configWrites,
                   fixtureWrites, reported, timedOut, failures, testVars>>

\* health.rs 94-114
FaucetProbe ==
    /\ pc = "Request"
    /\ answer \in FaucetAnswers
    /\ lastProbe' = [poll |-> "check_faucet", outcome |-> check_faucet(answer)]
    /\ ret' = check_faucet(answer)
    /\ pc' = "check_faucet"
    /\ UNCHANGED <<backend, elapsed, attempt, lastSleep, cmds, tAddress, upVars, testVars>>

\* health.rs 116-149
BackendProbe ==
    /\ pc = "Request"
    /\ answer \in BackendAnswers
    /\ lastProbe' = [poll |-> "check_backend", outcome |-> check_backend(backend, answer)]
    /\ ret' = check_backend(backend, answer)
    /\ pc' = "check_backend"
    /\ UNCHANGED <<backend, elapsed, attempt, lastSleep, cmds, tAddress, upVars, testVars>>

HelperNext ==
    \/ WalletBalance
    \/ TransparentAddress
    \/ UaFixtures
    \/ UnifiedAddress
    \/ AutoshieldTxid
    \/ ZebraProbe
    \/ BlockCount
    \/ FaucetProbe
    \/ BackendProbe

HelperSpec == HelperInit /\ [][HelperNext]_vars

----------------------------------------------------------------------------
(* Properties *)

StageOrder ==
    <<"NotStarted", "ContainersStarting", "NodeReady", "BackendReady", "WalletReady",
      "FaucetReady", "AddressDiscovered", "ConfigPatched", "NodeRestarted",
      "MiningMaturity", "CoinbaseMaturityWindow", "FixturesGenerated", "WalletSynced",
      "BalanceChecked", "Done">>

Rank(s) == CHOOSE k \in 1..Len(StageOrder) : StageOrder[k] = s

NonFatalStages ==
    {"AddressDiscovered", "ConfigPatched", "NodeRestarted", "FixturesGenerated",
     "WalletSynced", "BalanceChecked"}

PolledStages == {"NodeReady", "BackendReady", "WalletReady", "FaucetReady", "MiningMaturity"}

Issued(c) == \E k \in 1..Len(cmds) : cmds[k] = c

\* C1: stages begin in the fixed order (the backend gate only for lwd and zaino; the
\* code's faucet gate between wallet readiness and address discovery); a stage
\* begins only when the stage before it is over, with its gate satisfied by a ready
\* probe or, for a non-fatal stage only, with a warning; nothing is skipped but the
\* backend gate for backend none and the config patch / restart after a warning.
C1_StagesInOrder ==
    [][stage' # stage =>
        /\ Rank(stage') > Rank(stage)
        /\ status \in {"ok", "warn"}
        /\ status = "warn" => stage \in NonFatalStages
        /\ stage \in PolledStages => lastProbe.outcome = "Ok"
        /\ stage' = "BackendReady" => backend \in {"lwd", "zaino"}
        /\ \/ Rank(stage') = Rank(stage) + 1
           \/ stage = "NodeReady" /\ backend = "none" /\ stage' = "WalletReady"
           \/ /\ stage \in {"AddressDiscovered", "ConfigPatched"}
              /\ status = "warn"
              /\ stage' = "MiningMaturity"]_vars

C1_Witness == stage = "Done" /\ backend = "zaino" /\ warnings = {} /\ Issued("restart")

\* C2: when the node, backend or wallet gate runs out of time, execute has returned
\* ServiceNotReady, takes no further step, and no later stage has left a trace.
C2_ReadinessTimeoutAborts ==
    timedOut \in {"NodeReady", "BackendReady", "WalletReady"} =>
        /\ ret = "ServiceNotReady"
        /\ pc = "Failed"
        /\ stage = timedOut
        /\ ~ENABLED Next
        /\ tAddress = << >>
        /\ configWrites = 0
        /\ ~Issued("restart")
        /\ height = 0
        /\ fixtureWrites = 0
        /\ failures = {}
        /\ ~reported

C2_Witness == timedOut = "WalletReady" /\ pc = "Failed"

\* C3: when the mining-maturity wait runs out of time, execute has returned an error,
\* takes no further step, and no downstream stage has left a trace.
C3_MiningTimeoutAborts ==
    timedOut = "MiningMaturity" =>
        /\ ret = "ServiceNotReady"
        /\ pc = "Failed"
        /\ stage = "MiningMaturity"
        /\ ~ENABLED Next
        /\ lastSleep # CoinbaseWait
        /\ fixtureWrites = 0
        /\ uaAddress = << >>
        /\ failures \cap {"fixture", "sync", "balance"} = {}
        /\ ~reported

C3_Witness == timedOut = "MiningMaturity" /\ inner > MAX_WAIT_SECONDS

PostMining == {"Coinbase", "Fixtures", "Sync", "Balance", "Report", "Done", "Panicked"}

\* C4: the coinbase wait and every later stage are entered only after a getblockcount
\* response with a result of at least 101: the mining wait's ready probe carries it.
C4_MaturityObserved ==
    /\ pc \in PostMining => height >= 101
    /\ Rank(stage) > Rank("MiningMaturity") => height >= 101
    /\ stage = "MiningMaturity" /\ lastProbe.outcome = "Ok" => height >= 101

C4_Witness == pc = "Coinbase" /\ height = 101

\* C5: when address discovery fails, a warning is logged, the config file is never
\* written, the node is not restarted, and execute goes on to the mining wait.
C5_AddressFailureNonFatal ==
    "address" \in failures =>
        /\ "address" \in warnings
        /\ configWrites = 0
        /\ ~Issued("restart")
        /\ stage \notin {"ConfigPatched", "NodeRestarted"}
        /\ stage = "AddressDiscovered" =>
            pc = "Mining" /\ ret = "none" /\ ENABLED MiningWait

C5_Witness == "address" \in failures /\ stage = "MiningMaturity" /\ status = "running"

\* C6: when the config patch or the node restart fails, a warning is logged and
\* execute goes on to the mining wait.
C6_PatchRestartFailureNonFatal ==
    /\ "config" \in failures =>
        /\ "config" \in warnings
        /\ stage = "ConfigPatched" => pc = "Mining" /\ ret = "none" /\ ENABLED MiningWait
    /\ "restart" \in failures =>
        /\ "restart" \in warnings
        /\ stage = "NodeRestarted" => pc = "Mining" /\ ret = "none" /\ ENABLED MiningWait

C6_Witness == "restart" \in failures /\ stage = "MiningMaturity" /\ status = "running"

\* C7: once mining maturity is reached, the run neither aborts nor crashes: execute
\* is still running and has a next step, or it has returned Ok.
C7_NoAbortAfterMaturity ==
    Rank(stage) > Rank("MiningMaturity") =>
        \/ ret = "Ok" /\ reported
        \/ ret = "none" /\ ENABLED Next

\* C8: a ready probe ends its poll at once: the step that sees it sleeps 0 seconds,
\* the gate is satisfied and left, and the next probe belongs to another poll.
C8_ReadyEndsPoll ==
    [][/\ lastProbe'.outcome = "Ok" =>
            lastSleep' = 0 /\ status' = "ok" /\ pc' # pc /\ ret' = "none"
       /\ lastProbe.outcome = "Ok" => lastProbe'.poll # lastProbe.poll]_vars

C8_Witness ==
    /\ lastProbe = [poll |-> "wait_for_zebra", outcome |-> "Ok"]
    /\ elapsed = 0
    /\ pc = "Wallet"

WaitLoops == {"Zebra", "Backend", "Wallet", "Faucet", "Mining"}

\* C9: no wait loops forever: again and again execute is outside every wait loop
\* (in the end it has returned); and a wait loop left without a ready probe is left
\* with the timeout failure ServiceNotReady.
C9_WaitsTerminate ==
    /\ []<>(pc \notin WaitLoops)
    /\ [][(pc \in WaitLoops /\ pc' # pc /\ lastProbe'.outcome # "Ok") =>
            (pc' = "Failed" /\ ret' = "ServiceNotReady" /\ timedOut' = stage')]_vars

C9_Witness == timedOut = "FaucetReady" /\ ret = "ServiceNotReady"

\* C10: a readiness gate that runs out of time reports it within its bound plus one
\* per-call timeout, on the clock of the gate loop.
C10_TimeoutWithinBound ==
    /\ timedOut = "NodeReady" => elapsed <= ZebraGateSeconds + ProbeTimeout
    /\ timedOut = "BackendReady" => elapsed <= BackendGateSeconds + ProbeTimeout
    /\ timedOut = "WalletReady" => elapsed <= WALLET_TIMEOUT_SECONDS + ProbeTimeout
    /\ timedOut = "FaucetReady" => elapsed <= FaucetGateSeconds + ProbeTimeout

\* C11: a probe failure that can never become ready (check_backend on an unknown
\* backend name) ends the poll at once: wait_for_backend returns that failure after
\* the single attempt, without a sleep and without using the remaining attempts.
C11_FatalEndsPoll ==
    (lastProbe.outcome = "Err" /\ backend \notin {"lwd", "zaino"}) =>
        /\ pc = "Returned"
        /\ ret = "HealthCheck"
        /\ attempt = 0
        /\ lastSleep = 0
        /\ elapsed = 0

\* the positions of test::execute whose step calls detect_backend
DetectingSteps == {"Golden", "Stage1", "Stage3", "Stage4", "Stage5", "Stage6", "Check5"}

\* a running container's name has `pat` as a part
RunningMatch(pat) == \E n \in running : Contains(n, pat)

\* C12: every call of detect_backend that could run docker returns the zaino endpoint
\* when a running container matches zeckit-zaino (also when a lightwalletd container
\* runs too), the lightwalletd endpoint when none matches zeckit-zaino and one matches
\* zeckit-lightwalletd, and the failure "No backend detected" when none matches
\* either; the only other return is the Docker error of a docker that cannot be run.
C12_DetectionPrefersZaino ==
    [][(pc \in DetectingSteps /\ pc' # pc) =>
        /\ lastProbe'.poll = "detect_backend"
        /\ lastProbe'.outcome \in {"Ok", "HealthCheck", "Docker"}
        /\ lastProbe'.outcome = "Ok" => lastProbe'.uri \in {ZainoUri, LwdUri}
        /\ lastProbe'.outcome # "Ok" => lastProbe'.uri = << >>
        /\ lastProbe'.outcome # "Docker" =>
            /\ RunningMatch(S_zeckit_zaino) =>
                lastProbe'.outcome = "Ok" /\ lastProbe'.uri = ZainoUri
            /\ (~RunningMatch(S_zeckit_zaino) /\ RunningMatch(S_zeckit_lightwalletd)) =>
                lastProbe'.outcome = "Ok" /\ lastProbe'.uri = LwdUri
            /\ (~RunningMatch(S_zeckit_zaino) /\ ~RunningMatch(S_zeckit_lightwalletd)) =>
                lastProbe'.outcome = "HealthCheck"
        /\ (pc \in {"Golden", "Check5"} /\ lastProbe'.outcome = "Ok") =>
            backend' = lastProbe'.uri]_vars

C12_Witness ==
    /\ pc = "Balance5"
    /\ lastProbe.poll = "detect_backend"
    /\ lastProbe.uri = ZainoUri
    /\ backend = ZainoUri
    /\ running = {S_zeckit_zaino, S_zeckit_lightwalletd}

\* C13: within one run every wallet command targets one backend endpoint, that of the
\* backend detected when the run began, whatever containers start or stop meanwhile.
C13_OneBackendPerRun ==
    \A i \in 1..Len(cmds) : cmds[i].server = server_arg(backend)

LastResult == results[Len(results)]

\* C14: in golden mode the stages run in the order 1..6, each after the one before
\* it passed; a stage that fails ends the run with that stage's error and nothing
\* runs after it (a shielded send whose output has no txid marker fails at stage 4,
\* before any rescan or verification); the run returns Ok only after six passes.
C14_GoldenAbortsAtFirstFailure ==
    golden =>
        /\ Len(results) <= 6
        /\ \A k \in 1..Len(results) : results[k].n = k
        /\ \A k \in 1..(Len(results) - 1) : results[k].outcome = "Ok"
        /\ (results # << >> /\ LastResult.outcome = "Err") =>
            /\ pc = "Failed"
            /\ ret = LastResult.err
            /\ ~ENABLED TestNext
        /\ (results # << >> /\ LastResult.outcome = "Ok" /\ Len(results) < 6) =>
            /\ ret = "none"
            /\ pc \in {"Stage2", "Stage3", "Stage4", "Stage5", "Stage6"}
        /\ ret = "Ok" <=> (Len(results) = 6 /\ \A k \in 1..6 : results[k].outcome = "Ok")
        /\ ret = "Ok" <=> pc = "Done"
        /\ (Len(results) = 4 /\ ~OutContains(lastOut, S_txid)) =>
            /\ LastResult.outcome = "Err"
            /\ pc = "Failed"
            /\ \A i \in 1..Len(cmds) : cmds[i].cmd \notin {"rescan", "balance"}

C14_Witness ==
    /\ golden
    /\ pc = "Failed"
    /\ Len(results) = 4
    /\ lastOut # << >>
    /\ ~OutContains(lastOut, S_txid)

\* C15: golden stages 3 and 4 pass only with a transaction id taken from the console
\* response, never with a value put in its place.
C15_TxidObtained ==
    golden =>
        \A k \in 1..Len(results) :
            (results[k].n \in {3, 4} /\ results[k].outcome = "Ok") =>
                results[k].val \notin {ShieldPlaceholder, SendPlaceholder}

\* C16: in smoke mode the five checks run in the order 1..5 whatever the earlier ones
\* returned; each is counted once, as passed or as failed, so the summary is printed
\* with passed + failed = 5.
C16_AllFiveChecksRun ==
    ~golden =>
        /\ \A k \in 1..Len(results) : results[k].n = k
        /\ passed + failed = Len(results)
        /\ passed = Cardinality({k \in 1..Len(results) : results[k].outcome = "Ok"})
        /\ pc = "Check1" => Len(results) = 0
        /\ pc = "Check2" => Len(results) = 1
        /\ pc = "Check3" => Len(results) = 2
        /\ pc = "Check4" => Len(results) = 3
        /\ pc \in {"Check5", "Balance5", "Shield5", "Confirm5"} => Len(results) = 4
        /\ pc \in {"Summary", "Done", "Failed"} => Len(results) = 5 /\ passed + failed = 5

C16_Witness ==
    /\ ~golden
    /\ pc = "Failed"
    /\ Len(results) = 5
    /\ results[1].outcome = "Err"
    /\ results[5].outcome = "Ok"

\* C17: the smoke run returns an error exactly when one of its checks returned Err;
\* a check 5 that ended in SKIP returned Ok and is not counted as failed.
C17_FailsIffHardFail ==
    ~golden =>
        /\ pc \in {"Done", "Failed"} =>
            /\ ret # "Ok" <=> \E k \in 1..Len(results) : results[k].outcome = "Err"
            /\ ret = "Ok" <=> pc = "Done"
            /\ ret # "Ok" <=> failed > 0
        /\ \A k \in 1..Len(results) :
            results[k].note \in {"skip_too_small", "skip_no_balance"} =>
                results[k].outcome = "Ok"

C17_Witness ==
    /\ ~golden
    /\ pc = "Done"
    /\ ret = "Ok"
    /\ results[5].note = "skip_too_small"

\* C18: when wait_for_wallet_balance has returned a transparent balance under 1 ZEC
\* (also the 0 it returns when its attempts are used up), check 5 returns Ok and no
\* shield command is sent.
C18_LowBalanceSkips ==
    (/\ ~golden
     /\ lastProbe = [poll |-> "wait_for_wallet_balance", outcome |-> "Ok"]
     /\ balance[1] < ZatoshiPerZec) =>
        /\ pc \in {"Summary", "Done", "Failed"}
        /\ LastResult.n = 5
        /\ LastResult.outcome = "Ok"
        /\ \A i \in 1..Len(cmds) : cmds[i].cmd # "shield"
        /\ lastOut = << >>

C18_Witness ==
    /\ ~golden
    /\ lastProbe = [poll |-> "wait_for_wallet_balance", outcome |-> "Ok"]
    /\ balance = <<0, 0>>
    /\ pc = "Done"

\* C19: when the shield command was sent, check 5 is counted as passed only if the
\* response carries a transaction id.
C19_PassNeedsTxid ==
    (/\ ~golden
     /\ Len(results) = 5
     /\ results[5].outcome = "Ok"
     /\ \E i \in 1..Len(cmds) : cmds[i].cmd = "shield") =>
        OutContains(lastOut, S_txid)

\* number of places of s at which pat occurs
Occurrences(s, pat) ==
    Cardinality({k \in 1..(Len(s) - Len(pat) + 1) : SubSeq(s, k, k + Len(pat) - 1) = pat})

\* C20: after update_zebra_miner_address returns Ok, zebra.toml holds the address
\* as the value of its miner_address field, whatever the file held before: an
\* existing field is replaced in place, otherwise exactly one field is inserted
\* right after the [mining] header.
C20_MinerAddressSet ==
    (pc = "Returned" /\ ret = "Ok") =>
        /\ Contains(config, MinerField(tAddress))
        /\ IF Contains(configBefore, S_miner_address)
           THEN Occurrences(config, S_miner_address)
                    = Occurrences(configBefore, S_miner_address)
           ELSE /\ Occurrences(config, S_miner_address) = 1
                /\ Contains(config, S_mining \o <<"\n">> \o MinerField(tAddress))

\* C21: the config patch is idempotent: a second update_zebra_miner_address with
\* the same address, right after one that succeeded, leaves zebra.toml as the
\* first call left it.
C21_PatchIdempotent ==
    (pc = "Returned" /\ ret = "Ok" /\ configWrites >= 2) => config = configBefore

\* a second call has returned on a file the first call put the address in
C21_Witness ==
    /\ pc = "Returned"
    /\ ret = "Ok"
    /\ configWrites = 2
    /\ config = configBefore
    /\ Contains(config, MinerField(tAddress))

\* C22: the config write is atomic: whenever update_zebra_miner_address has
\* returned, with Ok or with an error, zebra.toml holds either all of the text it
\* held before the call or all of the new text.
C22_WriteAtomic ==
    pc = "Returned" =>
        config \in {configBefore, new_config(configBefore, tAddress)}

\* the lines of a balance output that name a field and carry a literal which parses
Readable(out, name) ==
    SelectSeq(out, LAMBDA line : /\ Contains(line, name)
                                 /\ Find(line, <<":">>) # 0
                                 /\ BalanceLiteral(line).ok)

WellFormed(line, prefix) ==
    /\ Contains(line, prefix)
    /\ StartsWith(TokenAt(line, prefix), prefix)
    /\ Len(TokenAt(line, prefix)) > MinTAddrLen

\* C24: address extraction never accepts a malformed candidate: the transparent
\* and the unified extraction return (and the latter writes to the fixture file)
\* only a token longer than the minimum length, and they pass over a line with an
\* under-length token to find the address on a later line.
C24_NoUnderLengthAddress ==
    /\ pc = "get_wallet_transparent_address" =>
        /\ ret = "Ok" => Len(tAddress) > MinTAddrLen /\ StartsWith(tAddress, S_tm)
        /\ (\E k \in 1..Len(lastOut) :
                Contains(lastOut[k], S_quoted_encoded_address) /\ WellFormed(lastOut[k], S_tm))
            => ret = "Ok"
    /\ pc = "generate_ua_fixtures" =>
        /\ ret = "Ok" => Len(uaAddress) > MinTAddrLen /\ StartsWith(uaAddress, S_uregtest)
        /\ fixtureWrites > 0 =>
            \E k \in 1..Len(lastOut) :
                /\ WellFormed(lastOut[k], S_uregtest)
                /\ \A j \in 1..(k - 1) : ~WellFormed(lastOut[j], S_uregtest)

\* the field `"txid": "` of a console output in JSON form
S_txid_field == <<Q>> \o S_txid \o <<Q, ":", " ", Q>>

\* X of a line of the form `"txid": "X"`
TxidValue(line) ==
    LET rest == SubSeq(line, Find(line, S_txid_field) + Len(S_txid_field), Len(line))
    IN SubSeq(rest, 1, Find(rest, <<Q>>) - 1)

\* C25: transaction-id extraction returns the text between the first pair of
\* quotes that follows the marker on the marker's line: when the first line with
\* the marker has the form `"txid": "X"`, autoshield_funds returns X, and it never
\* returns the marker word itself.
C25_TxidAfterMarker ==
    (pc = "autoshield_funds" /\ ret = "Ok") =>
        /\ results[1].val # S_txid
        /\ LET k == FirstOf({n \in 1..Len(lastOut) : Contains(lastOut[n], S_txid)})
           IN (/\ Contains(lastOut[k], S_txid_field)
               /\ Contains(SubSeq(lastOut[k],
                                  Find(lastOut[k], S_txid_field) + Len(S_txid_field),
                                  Len(lastOut[k])), <<Q>>))
              => results[1].val = TxidValue(lastOut[k])

S_unifiedaddress == <<"u", "n", "i", "f", "i", "e", "d", "a", "d", "d", "r", "e", "s", "s">>

\* C26: address and transaction-id extraction return a failure whenever their
\* marker is on no line of the captured output: generate_unified_address without
\* `unifiedaddress`, get_wallet_transparent_address without `"encoded_address"`
\* or without `tm`, autoshield_funds without `txid`.
C26_NotFoundWithoutMarker ==
    /\ (pc = "generate_unified_address" /\ ~OutContains(lastOut, S_unifiedaddress))
        => ret = "Err" /\ results[1].outcome = "Err"
    /\ (/\ pc = "get_wallet_transparent_address"
        /\ ~OutContains(lastOut, S_quoted_encoded_address) \/ ~OutContains(lastOut, S_tm))
        => ret = "Err" /\ tAddress = << >>
    /\ (pc = "autoshield_funds" /\ ~OutContains(lastOut, S_txid))
        => ret = "Err" /\ results[1].outcome = "Err"

\* C27: the node RPC probe is ready exactly when its call got a response with a
\* success status, and a height is only taken from such a response: check_zebra
\* returns Ok for these responses only; get_block_count returns Ok(h) only for a
\* success response with result h, and Ok(42) for a 200 response with result 42.
C27_RpcReadyOnSuccessStatus ==
    /\ pc = "check_zebra" =>
        (ret = "Ok" <=> Sent(answer) /\ IsSuccess(answer.status))
    /\ pc = "get_block_count" =>
        /\ ret = "Ok" =>
            Sent(answer) /\ IsSuccess(answer.status) /\ height = answer.result
        /\ (Sent(answer) /\ answer.status = 200 /\ answer.result = 42)
            => ret = "Ok" /\ height = 42

\* C28: the faucet probe is ready for every response with a success status,
\* unless the body's status field is "unhealthy"; it is not ready for a transport
\* failure or a non-success status.
C28_FaucetReadyUnlessUnhealthy ==
    pc = "check_faucet" =>
        (ret = "Ok" <=>
            Sent(answer) /\ IsSuccess(answer.status) /\ answer.health # "unhealthy")

\* C29: the backend probe of lwd and zaino is ready whenever the TCP connect
\* succeeded, whatever came after it (a reply that is no HTTP, an HTTP error, no
\* reply within the per-call timeout), and not ready only when the connect failed.
C29_BackendReadyOnConnect ==
    (pc = "check_backend" /\ backend \in {"lwd", "zaino"}) =>
        (ret = "Ok" <=> answer.kind \notin {"connect_error", "connect_timeout"})

\* C30: both fields of an extracted wallet balance are non-negative, whatever
\* literal the console output carries.
C30_BalanceNonNegative ==
    pc = "get_wallet_balance" => balance[1] >= 0 /\ balance[2] >= 0

\* the line carries exactly the field name: the name is not the tail of a longer one
NamesField(line, name) ==
    \E k \in 1..(Len(line) - Len(name) + 1) :
        /\ SubSeq(line, k, k + Len(name) - 1) = name
        /\ k = 1 \/ line[k - 1] \in {Q, " "}

\* C31: balance extraction strips underscores and commas from the literal of the
\* named field, parses it as an integer amount of which 10^8 make 1.0, and reports
\* for a field the value of the line that carries exactly that field's name: each
\* field is what the lines with exactly its name give, and an output whose only
\* such line for the transparent field has the literal 150_000_000 gives 1.5.
C31_BalanceOfNamedField ==
    pc = "get_wallet_balance" =>
        /\ \A f \in 1..2 :
            LET name == <<S_transparent_balance, S_orchard_balance>>[f]
            IN balance[f] = BalanceOf(SelectSeq(lastOut, LAMBDA line : NamesField(line, name)),
                                      name)
        /\ (\E k \in 1..Len(lastOut) :
               /\ NamesField(lastOut[k], S_transparent_balance)
               /\ Contains(lastOut[k], <<":", " ">> \o <<"1", "5", "0", "_", "0", "0", "0", "_", "0", "0", "0">>)
               /\ \A j \in 1..Len(lastOut) :
                      NamesField(lastOut[j], S_transparent_balance) => j = k)
            => 2 * balance[1] = 3 * ZatoshiPerZec

\* C32: in one run of execute the node configuration file is written at most once
\* and the fixture file at most once, whatever the wallet console prints; a write of
\* the config file belongs to the config-patch stage, one of the fixture file to the
\* fixture stage.
C32_WrittenAtMostOnce ==
    /\ configWrites <= 1
    /\ fixtureWrites <= 1
    /\ configWrites = 1 => Rank(stage) >= Rank("ConfigPatched")
    /\ fixtureWrites = 1 => Rank(stage) >= Rank("FixturesGenerated")

C32_Witness == configWrites = 1 /\ fixtureWrites = 1 /\ pc = "Done"

\* C33: when execute aborts on a readiness or mining-maturity timeout it has issued
\* no container command but those of the launch and, before the mining wait only,
\* the restart after the config patch: the aborting step issues none, no step
\* follows it, and no stop or down command is among those issued after the launch.
C33_NoRollbackOnAbort ==
    timedOut # "" =>
        /\ pc = "Failed"
        /\ ~ENABLED Next
        /\ LET started == LaunchCommands(backend, fresh, TRUE, TRUE)
           IN /\ Issued("up")
              /\ \/ cmds = started
                 \/ /\ timedOut = "MiningMaturity"
                    /\ "address" \notin failures /\ "config" \notin failures
                    /\ cmds = Append(started, "restart")

C33_Witness ==
    /\ timedOut = "MiningMaturity"
    /\ pc = "Failed"
    /\ fresh
    /\ cmds = <<"down -v", "build", "up", "restart">>

\* C34: the restart is attempted only after a successful config patch and the patch
\* only after a successful address discovery: a restart command implies one written
\* config and no patch failure; an attempted patch implies a discovered address; a
\* failed discovery leaves no write, no patch failure and no restart; a failed patch
\* leaves no restart.
C34_RestartAfterPatchAfterAddress ==
    /\ Issued("restart") \/ "restart" \in failures =>
        /\ Issued("restart")
        /\ configWrites = 1
        /\ "config" \notin failures
    /\ configWrites > 0 \/ "config" \in failures =>
        /\ tAddress # << >>
        /\ "address" \notin failures
    /\ "address" \in failures =>
        /\ tAddress = << >>
        /\ configWrites = 0
        /\ "config" \notin failures
        /\ ~Issued("restart")
    /\ "config" \in failures =>
        /\ ~Issued("restart")
        /\ "restart" \notin failures
    /\ pc = "Restart" => stage = "ConfigPatched" /\ status = "ok"
    /\ pc = "Config" => stage = "AddressDiscovered" /\ status = "ok"

C34_Witness ==
    /\ "config" \in failures
    /\ configWrites = 1
    /\ tAddress # << >>
    /\ stage = "MiningMaturity"
    /\ ~Issued("restart")

\* C35: a backend other than lwd, zaino or none is rejected before any side effect,
\* with --fresh too: once execute has left its entry it has failed, no container
\* command was issued (none started, no data removed), and the error is the
\* configuration error (or the I/O error of a project directory that was not found,
\* before anything could run).
C35_InvalidBackendRejectedFirst ==
    backend \notin {"lwd", "zaino", "none"} /\ pc # "Entry" =>
        /\ pc = "Failed"
        /\ ret \in {"Config", "Io"}
        /\ cmds = << >>
        /\ stage = "ContainersStarting"

\* C36: a failed height query never aborts the mining wait: the step that sees one
\* either sleeps 2 s and stays in the wait, with nothing else changed, or finds the
\* elapsed-time bound exceeded and returns ServiceNotReady; the wait is left for the
\* coinbase window only on a height of at least 101.
C36_FailedQueryRepeated ==
    [][pc = "Mining" =>
        /\ lastProbe'.outcome = "Err" =>
            \/ /\ pc' = "Mining"
               /\ status' = "running"
               /\ ret' = "none"
               /\ lastSleep' = PollSleep
               /\ inner' >= InnerClock("MiningMaturity") + PollSleep
               /\ inner' <= MAX_WAIT_SECONDS + PollSleep
               /\ UNCHANGED <<height, timedOut, failures, warnings, cmds>>
            \/ /\ pc' = "Failed"
               /\ ret' = "ServiceNotReady"
               /\ timedOut' = "MiningMaturity"
               /\ inner' > MAX_WAIT_SECONDS
        /\ pc' = "Coinbase" => lastProbe'.outcome = "Ok" /\ height' >= MinBlocks
        /\ pc' \in {"Mining", "Coinbase", "Failed"}]_vars

C36_Witness ==
    /\ lastProbe = [poll |-> "wait_for_mined_blocks", outcome |-> "Err"]
    /\ pc = "Mining"
    /\ status = "running"
    /\ inner > PollSleep

\* C37: the faucet gate is fatal and stands between wallet readiness and address
\* discovery: it is entered from a ready wallet, address discovery is entered only
\* from a healthy faucet probe, and when the faucet gate runs out of time execute
\* has returned ServiceNotReady with no address discovery, config write, restart or
\* mining wait attempted and no step left to take.
C37_FaucetGateFatal ==
    /\ pc = "Faucet" =>
        \/ stage = "WalletReady" /\ lastProbe = [poll |-> "wait_for_wallet_ready", outcome |-> "Ok"]
        \/ stage = "FaucetReady" /\ lastProbe = [poll |-> "wait_for_faucet", outcome |-> "Err"]
    /\ pc = "Address" =>
        /\ stage = "FaucetReady"
        /\ lastProbe = [poll |-> "wait_for_faucet", outcome |-> "Ok"]
        /\ status = "ok"
    /\ Rank(stage) > Rank("FaucetReady") =>
        "gate" \notin warnings /\ timedOut \in {"", "MiningMaturity"}
    /\ timedOut = "FaucetReady" =>
        /\ ret = "ServiceNotReady"
        /\ pc = "Failed"
        /\ ~ENABLED Next
        /\ stage = "FaucetReady"
        /\ lastProbe = [poll |-> "wait_for_faucet", outcome |-> "Err"]
        /\ elapsed >= FaucetGateSeconds
        /\ tAddress = << >>
        /\ failures = {}
        /\ warnings = {}
        /\ configWrites = 0
        /\ ~Issued("restart")
        /\ inner = 0
        /\ height = 0

C37_Witness ==
    /\ timedOut = "FaucetReady"
    /\ pc = "Failed"
    /\ backend = "lwd"
    /\ Issued("up")

====
